---- MODULE Spec2Model ----
(***************************************************************************)
(* A model of cbz2epub: the archive reader (cbz.ReadFile), the archive     *)
(* merger (cbz.MergeFiles) and the document assembler                      *)
(* (epub.ConvertFromCBZ, epub.ConvertFile).                                *)
(*                                                                         *)
(* Go strings are modelled as sequences of one-character strings, so that  *)
(* filepath.Ext, filepath.Base, strings.ToLower, fmt.Sprintf("%03d") and   *)
(* the byte-wise comparison of names are computed, not assumed.            *)
(***************************************************************************)
EXTENDS Integers, Sequences, FiniteSets, TLC

VARIABLES
    probe,         \* a file name given to isImageFile and getMimeType, and their results
    disk,          \* path -> content of the file at that path     
    op,            \* the entry point running: "none", "read", "merge", "convert"
    pc,            \* position in the running code
    filename,      \* ReadFile: its argument
    cbzFile,       \* ReadFile: the *File being built, then returned
    ri,            \* ReadFile: index of the next entry of zipReader.File
    readErr,       \* ReadFile: its error result ("none" while running)
    inputFiles,    \* MergeFiles: its argument
    chapterIndex,  \* MergeFiles: index of the outer range loop (0-based)
    imageCounter,  \* MergeFiles: the sequence counter
    ii,            \* MergeFiles / ConvertFromCBZ: index of the range loop over Images (0-based)
    contentOPF,    \* ConvertFromCBZ: the content.opf buffer
    tocNCX,        \* ConvertFromCBZ: the toc.ncx buffer
    out,           \* the output file and the zip.Writer on it
    ret,           \* the error result of the entry point ("none" while running)
    outputFile,    \* MergeFiles / ConvertFile / ConvertFromCBZ: the output path
    handles,       \* the handles that are open: of files, readers and the writer
    title,         \* ConvertFromCBZ: the title
    date,          \* ConvertFromCBZ: the date
    uuid,          \* ConvertFromCBZ: the identifier
    issued,        \* the values util.GenerateUUID has returned, in order
    caller,        \* the function of the command that called the entry point, or "none"
    config,        \* the Config the command runs with
    argIndex,      \* handleConvertCommand: index of the range loop over InputFiles (0-based)
    conversionError, \* handleConvertCommand: the error it will return
    dirStack,      \* the frames of processDirectory, the innermost last
    calls,         \* the calls of ConvertFile the command made: input, output, result
    cmdErr,        \* the error result of the command ("none" while running)
    args,          \* flag.Args(): the input files as given on the command line
    today,         \* the day the program runs on, which time.Now() gives
    entropy        \* the draws of sixteen bytes the random source can give in this run

\* the variables of ConvertFromCBZ that describe the document
docVars == <<title, date, uuid, issued>>

\* the variables of the command, and what it is given to run in
cmdVars ==
    <<caller, config, argIndex, conversionError, dirStack, calls, cmdErr, args, today,
      entropy>>

vars == <<probe, disk, op, pc, filename, cbzFile, ri, readErr, inputFiles, chapterIndex,
          imageCounter, ii, contentOPF, tocNCX, out, ret, outputFile, handles,
          title, date, uuid, issued,
          caller, config, argIndex, conversionError, dirStack, calls, cmdErr, args,
          today, entropy>>

(***************************************************************************)
(* Bounds of the model.                                                    *)
(***************************************************************************)
\* entries of the archive that is drawn from the full pool of entry kinds
MaxEntries == 3
\* entries of each archive drawn from the pools of images: of each archive
\* given to MergeFiles, and of the archive given to ConvertFile
MaxImages == 2
\* length of the input list of MergeFiles
MaxFiles == 2

(***************************************************************************)
(* Strings.                                                                *)
(***************************************************************************)
\* The characters the model uses, in ascending byte (ASCII) order.
AsciiOrder ==
    <<"+", "-", ".", "/", "0", "1", "2", "3", "4", "5", "6", "7", "8", "9",
      "A", "B", "C", "D", "E", "F", "G", "H", "I", "J", "K", "L", "M",
      "N", "O", "P", "Q", "R", "S", "T", "U", "V", "W", "X", "Y", "Z",
      "_",
      "a", "b", "c", "d", "e", "f", "g", "h", "i", "j", "k", "l", "m",
      "n", "o", "p", "q", "r", "s", "t", "u", "v", "w", "x", "y", "z">>

\* the rank of each character in that order
OrdTable ==
    [c \in {AsciiOrder[i] : i \in 1..Len(AsciiOrder)} |->
        CHOOSE i \in 1..Len(AsciiOrder) : AsciiOrder[i] = c]

Ord(c) == OrdTable[c]

UpperFirst == Ord("A")
UpperLast == Ord("Z")
LowerFirst == Ord("a")

\* unicode.ToLower on one ASCII character
LowerChar(c) ==
    IF Ord(c) >= UpperFirst /\ Ord(c) <= UpperLast
    THEN AsciiOrder[Ord(c) - UpperFirst + LowerFirst]
    ELSE c

\* strings.ToLower
ToLower(s) == [i \in 1..Len(s) |-> LowerChar(s[i])]

\* the Go operator < on strings: byte-wise lexicographic
RECURSIVE StrLessFrom(_, _, _)
StrLessFrom(a, b, i) ==
    IF i > Len(b) THEN FALSE
    ELSE IF i > Len(a) THEN TRUE
    ELSE IF a[i] # b[i] THEN Ord(a[i]) < Ord(b[i])
    ELSE StrLessFrom(a, b, i + 1)

StrLess(a, b) == StrLessFrom(a, b, 1)

IsPathSeparator(c) == c = "/"

\* filepath.Ext: the suffix beginning at the final dot of the final path element
RECURSIVE ExtFrom(_, _)
ExtFrom(path, i) ==
    IF i < 1 \/ IsPathSeparator(path[i]) THEN <<>>
    ELSE IF path[i] = "." THEN SubSeq(path, i, Len(path))
    ELSE ExtFrom(path, i - 1)

Ext(path) == ExtFrom(path, Len(path))

\* filepath.Base: the last element of path, trailing separators removed first
RECURSIVE StripTrailingSlashes(_)
StripTrailingSlashes(path) ==
    IF Len(path) > 0 /\ IsPathSeparator(path[Len(path)])
    THEN StripTrailingSlashes(SubSeq(path, 1, Len(path) - 1))
    ELSE path

RECURSIVE LastSlash(_, _)
LastSlash(path, i) ==
    IF i < 1 THEN 0
    ELSE IF IsPathSeparator(path[i]) THEN i
    ELSE LastSlash(path, i - 1)

Base(path) ==
    IF path = <<>> THEN <<".">>
    ELSE LET p == StripTrailingSlashes(path)
             q == SubSeq(p, LastSlash(p, Len(p)) + 1, Len(p))
         IN  IF q = <<>> THEN <<"/">> ELSE q

\* strconv of a non-negative integer
Digit(d) == AsciiOrder[Ord("0") + d]

RECURSIVE Itoa(_)
Itoa(n) == IF n < 10 THEN <<Digit(n)>> ELSE Itoa(n \div 10) \o <<Digit(n % 10)>>

\* fmt.Sprintf("%0{w}d", n): zero-padded to at least w digits
RECURSIVE PadZero(_, _)
PadZero(s, w) == IF Len(s) >= w THEN s ELSE PadZero(<<"0">> \o s, w)

PadWidth == 3

Pad3(n) == PadZero(Itoa(n), PadWidth)

\* strings.HasSuffix
HasSuffix(s, suffix) ==
    Len(s) >= Len(suffix) /\ SubSeq(s, Len(s) - Len(suffix) + 1, Len(s)) = suffix

\* strings.TrimSuffix: s without the suffix when s ends with it, else s
TrimSuffix(s, suffix) ==
    IF HasSuffix(s, suffix) THEN SubSeq(s, 1, Len(s) - Len(suffix)) ELSE s


(***************************************************************************)
(* Fixed strings of the program.                                           *)
(***************************************************************************)
ExtJpg == <<".", "j", "p", "g">>
ExtJpeg == <<".", "j", "p", "e", "g">>
ExtPng == <<".", "p", "n", "g">>
ExtGif == <<".", "g", "i", "f">>
ExtWebp == <<".", "w", "e", "b", "p">>
ChapterPrefix == <<"c", "h", "a", "p", "t", "e", "r">>
ImagePrefix == <<"i", "m", "a", "g", "e">>
PagePrefix == <<"p", "a", "g", "e">>
XhtmlSuffix == <<".", "x", "h", "t", "m", "l">>
ImagesDir == <<"O", "E", "B", "P", "S", "/", "i", "m", "a", "g", "e", "s", "/">>
PagesDir == <<"O", "E", "B", "P", "S", "/", "p", "a", "g", "e", "s", "/">>
ImagesHref == <<"i", "m", "a", "g", "e", "s", "/">>
PagesHref == <<"p", "a", "g", "e", "s", "/">>
ImgSrcPrefix == <<".", ".", "/", "i", "m", "a", "g", "e", "s", "/">>
MimetypeName == <<"m", "i", "m", "e", "t", "y", "p", "e">>
MimetypeContent ==
    <<"a", "p", "p", "l", "i", "c", "a", "t", "i", "o", "n", "/",
      "e", "p", "u", "b", "+", "z", "i", "p">>
ContainerName ==
    <<"M", "E", "T", "A", "-", "I", "N", "F", "/",
      "c", "o", "n", "t", "a", "i", "n", "e", "r", ".", "x", "m", "l">>
ContentOpfName ==
    <<"O", "E", "B", "P", "S", "/", "c", "o", "n", "t", "e", "n", "t", ".", "o", "p", "f">>
TocNcxName == <<"O", "E", "B", "P", "S", "/", "t", "o", "c", ".", "n", "c", "x">>
TocHref == <<"t", "o", "c", ".", "n", "c", "x">>
NcxId == <<"n", "c", "x">>
ExtCbz == <<".", "c", "b", "z">>
ExtEpub == <<".", "e", "p", "u", "b">>
UrnUuid == <<"u", "r", "n", ":", "u", "u", "i", "d", ":">>

(***************************************************************************)
(* util.GenerateUUID: sixteen random bytes, of which the high four bits of *)
(* the seventh are set to 0100 (version 4) and the high two bits of the    *)
(* ninth to 10 (the variant), written as lower-case hexadecimal digits in  *)
(* groups of 8, 4, 4, 4 and 12 with hyphens between them.                  *)
(***************************************************************************)
HexDigits ==
    <<"0", "1", "2", "3", "4", "5", "6", "7", "8", "9", "a", "b", "c", "d", "e", "f">>

\* the two hexadecimal digits of a byte
HexByte(b) == <<HexDigits[(b \div 16) + 1], HexDigits[(b % 16) + 1]>>

\* the digits of bytes from..to of b
RECURSIVE HexRange(_, _, _)
HexRange(b, from, to) ==
    IF from > to THEN <<>> ELSE HexByte(b[from]) \o HexRange(b, from + 1, to)

\* the version left as drawn
SetVersionNot(b) == b

\* b&0x0f | 0x40
SetVersion(b) == (b % 16) + 64

\* b&0x3f | 0x80
SetVariant(b) == (b % 64) + 128

\* the identifier made of the random bytes rb
GenerateUUID(rb) ==
    LET b == [i \in 1..16 |->
                 IF i = 7 THEN SetVersion(rb[i])
                 ELSE IF i = 9 THEN SetVariant(rb[i])
                 ELSE rb[i]]
    IN  HexRange(b, 1, 4) \o <<"-">> \o HexRange(b, 5, 6) \o <<"-">>
            \o HexRange(b, 7, 8) \o <<"-">> \o HexRange(b, 9, 10) \o <<"-">>
            \o HexRange(b, 11, 16)

\* What the random source gives: sixteen bytes. The first, the seventh and
\* the ninth are drawn from ByteSamples, the others are one fixed byte.
ByteSamples == {0, 95, 255}
FixedByte == 167

RandomDraws ==
    {[i \in 1..16 |->
         IF i = 1 THEN c[1] ELSE IF i = 7 THEN c[2] ELSE IF i = 9 THEN c[3] ELSE FixedByte] :
        c \in ByteSamples \X ByteSamples \X ByteSamples}

\* two of the draws
AssemblerDraws == {rb \in RandomDraws : rb[1] = rb[7] /\ rb[7] = rb[9] /\ rb[1] # 95}

\* one of the draws
OneDraw == {rb \in RandomDraws : rb[1] = 95 /\ rb[7] = 255 /\ rb[9] = 0}

(***************************************************************************)
(* cbz: recognising images.                                                *)
(***************************************************************************)
\* the extensions isImageFile accepts
ImageExts == {ExtJpg, ExtJpeg, ExtPng, ExtGif, ExtWebp}

isImageFile(name) == ToLower(Ext(name)) \in ImageExts

\* getMimeType without strings.ToLower
getMimeTypeNoLower(name) ==
    LET ext == Ext(name)
    IN  CASE ext = ExtJpg \/ ext = ExtJpeg -> "image/jpeg"
          [] ext = ExtPng -> "image/png"
          [] ext = ExtGif -> "image/gif"
          [] ext = ExtWebp -> "image/webp"
          [] OTHER -> "application/octet-stream"

getMimeType(name) ==
    LET ext == ToLower(Ext(name))
    IN  CASE ext = ExtJpg \/ ext = ExtJpeg -> "image/jpeg"
          [] ext = ExtPng -> "image/png"
          [] ext = ExtGif -> "image/gif"
          [] ext = ExtWebp -> "image/webp"
          [] OTHER -> "application/octet-stream"

(***************************************************************************)
(* Inputs: the files on disk.                                              *)
(***************************************************************************)
PathA == <<"a", ".", "c", "b", "z">>
PathB == <<"b", ".", "c", "b", "z">>
InputPaths == {PathA, PathB}

\* An entry of an input container (zip.File): its name, whether its mode says
\* directory, its content, and whether its data is truncated or corrupt.
Entry(name, isDir, data, corrupt) ==
    [Name |-> name, IsDir |-> isDir, Data |-> data, Corrupt |-> corrupt]

EntryA == Entry(<<"a", ".", "j", "p", "g">>, FALSE, "A", FALSE)
\* same base name as EntryA, in a subfolder
EntryDA == Entry(<<"d", "/", "a", ".", "j", "p", "g">>, FALSE, "B", FALSE)
\* upper-case extension
EntryB == Entry(<<"b", ".", "P", "N", "G">>, FALSE, "C", FALSE)
\* not an image
EntryTxt == Entry(<<"n", ".", "t", "x", "t">>, FALSE, "D", FALSE)
\* an entry whose mode says directory although its name has an image extension
EntryDir == Entry(<<"c", ".", "g", "i", "f">>, TRUE, "", FALSE)
\* an image entry whose data cannot be read
EntryBad == Entry(<<"e", ".", "w", "e", "b", "p">>, FALSE, "E", TRUE)

ImagePool == {EntryA, EntryB}
EntryPool == ImagePool \cup {EntryDA, EntryTxt, EntryDir, EntryBad}

SeqsUpTo(S, n) == UNION {[1..k -> S] : k \in 0..n}

\* the content of a path: a zip container with its entries, or not a container
Zip(entries) == [valid |-> TRUE, File |-> entries]
NotZip == [valid |-> FALSE, File |-> <<>>]

\* for ReadFile and ConvertFile: one archive over every kind of entry, or a
\* file that is no archive, at PathA
RichDisks ==
    {[p \in InputPaths |-> IF p = PathA THEN a ELSE Zip(<<>>)] :
        a \in {Zip(f) : f \in SeqsUpTo(EntryPool, MaxEntries)} \cup {NotZip}}

\* for ConvertFile: one archive of images, some with the same name, and of
\* files that are no images, or a file that is no archive, at PathA
ConvertPool == ImagePool \cup {EntryDA, EntryTxt}

\* what is at PathB, where the output of ConvertFile may go, before the call
ExistingOutput == Zip(<<>>)

ConvertDisks ==
    {[p \in InputPaths |-> IF p = PathA THEN a ELSE ExistingOutput] :
        a \in {Zip(f) : f \in SeqsUpTo(ConvertPool, MaxImages)}
                  \cup {NotZip, Zip(<<EntryA, EntryBad>>)}}

\* for MergeFiles: two archives of images, either of which may be unreadable
LeanContents ==
    {Zip(f) : f \in SeqsUpTo(ImagePool, MaxImages)} \cup {NotZip, Zip(<<EntryBad>>)}

LeanDisks ==
    {[p \in InputPaths |-> IF p = PathA THEN a ELSE b] :
        a \in LeanContents, b \in LeanContents}

(***************************************************************************)
(* The files the command runs on: archives, a file that is no archive, a   *)
(* path where nothing is, and a directory with two archives and two        *)
(* directories in it, one of them with an archive that cannot be read.     *)
(***************************************************************************)
\* a path where nothing is
Missing == [valid |-> FALSE, File |-> <<>>, kind |-> "missing"]

\* a directory and the names in it, in the order os.ReadDir gives them
Dir(children) == [valid |-> FALSE, File |-> <<>>, kind |-> "dir", children |-> children]

\* os.Stat: what is at the path
Stat(path) ==
    IF path \notin DOMAIN disk THEN "missing"
    ELSE IF "kind" \in DOMAIN disk[path] THEN disk[path].kind
    ELSE "file"

\* filepath.Join of a directory and a name
Join(dir, name) == dir \o <<"/">> \o name

PathUpper == <<"B", ".", "C", "B", "Z">>
PathTxt == <<"n", ".", "t", "x", "t">>
PathMissing == <<"m", ".", "c", "b", "z">>
PathDir == <<"d">>
NameC == <<"c", ".", "c", "b", "z">>
NameF == <<"F", ".", "C", "B", "Z">>
NameS == <<"s">>
NameT == <<"t">>
NameE == <<"e", ".", "c", "b", "z">>
\* the default output of the merge command, left by an earlier run
PathMerged == <<"m", "e", "r", "g", "e", "d", ".", "c", "b", "z">>
EntryMerged ==
    Entry(<<"c", "h", "a", "p", "t", "e", "r", "0", "0", "1", "_", "0", "0", "1", ".", "j", "p", "g">>,
          FALSE, "M", FALSE)

\* the paths that can be given on the command line
CmdArgs == {PathA, PathUpper, PathTxt, PathMissing, PathDir, PathMerged}

CmdPaths ==
    CmdArgs \cup {Join(PathDir, NameC), Join(PathDir, NameF), Join(PathDir, NameS),
                  Join(PathDir, NameT), Join(Join(PathDir, NameS), NameE)}

CmdDisk ==
    [p \in CmdPaths |->
        CASE p = PathA -> Zip(<<EntryTxt, EntryA>>)
          [] p = PathUpper -> Zip(<<EntryB>>)
          [] p = PathTxt -> NotZip
          [] p = PathMissing -> Missing
          [] p = PathMerged -> Zip(<<EntryMerged>>)
          [] p = PathDir -> Dir(<<NameF, NameC, NameS, NameT>>)
          [] p = Join(PathDir, NameC) -> Zip(<<>>)
          [] p = Join(PathDir, NameF) -> Zip(<<>>)
          [] p = Join(PathDir, NameS) -> Dir(<<NameE>>)
          [] p = Join(PathDir, NameT) -> Dir(<<>>)
          [] OTHER -> Zip(<<EntryBad>>)]

\* the -output flag: not given, or a path
OutputFlags == {<<>>, <<"o", ".", "e", "p", "u", "b">>}

(***************************************************************************)
(* File names for isImageFile and getMimeType: a directory part, a stem    *)
(* and a final suffix. A suffix is a dot followed by letters, or it is     *)
(* empty after a stem without a dot, so it is the extension of the name by *)
(* construction; kind is that extension without regard to case.            *)
(***************************************************************************)
ProbeDirs == {<<>>, <<"d", "/">>, <<"d", ".", "j", "p", "g", "/">>}
ProbeStems == {<<>>, <<"a">>, <<"a", ".", "p", "n", "g">>, <<"a", ".", "t", "x", "t">>}
ProbeSuffixes ==
    {[ext |-> <<>>, kind |-> "none"],
     [ext |-> <<".">>, kind |-> "other"],
     [ext |-> <<".", "j", "p", "g">>, kind |-> "jpg"],
     [ext |-> <<".", "J", "P", "G">>, kind |-> "jpg"],
     [ext |-> <<".", "j", "p", "e", "g">>, kind |-> "jpeg"],
     [ext |-> <<".", "J", "p", "e", "G">>, kind |-> "jpeg"],
     [ext |-> <<".", "p", "n", "g">>, kind |-> "png"],
     [ext |-> <<".", "P", "N", "G">>, kind |-> "png"],
     [ext |-> <<".", "g", "i", "f">>, kind |-> "gif"],
     [ext |-> <<".", "G", "i", "f">>, kind |-> "gif"],
     [ext |-> <<".", "w", "e", "b", "p">>, kind |-> "webp"],
     [ext |-> <<".", "W", "E", "B", "P">>, kind |-> "webp"],
     [ext |-> <<".", "t", "x", "t">>, kind |-> "other"],
     [ext |-> <<".", "p", "d", "f">>, kind |-> "other"],
     [ext |-> <<".", "j", "p">>, kind |-> "other"],
     [ext |-> <<".", "j", "p", "g", "x">>, kind |-> "other"],
     [ext |-> <<".", "c", "b", "z">>, kind |-> "other"]}

ProbeInputs ==
    {[dir |-> c[1], stem |-> c[2], ext |-> c[3].ext, kind |-> c[3].kind,
      isImage |-> FALSE, mime |-> "", applied |-> FALSE] :
        c \in {d \in ProbeDirs \X ProbeStems \X ProbeSuffixes :
                  d[3].ext # <<>> \/ Len(d[2]) <= 1}}

NoProbe ==
    [dir |-> <<>>, stem |-> <<>>, ext |-> <<>>, kind |-> "none",
     isImage |-> FALSE, mime |-> "", applied |-> FALSE]

ProbeName(p) == p.dir \o p.stem \o p.ext

(***************************************************************************)
(* The values of variables not in use.                                     *)
(***************************************************************************)
NoFile == [Name |-> <<>>, Images |-> <<>>]
NoOutput ==
    [created |-> FALSE, entries |-> <<>>, failed |-> FALSE,
     finalized |-> FALSE, closed |-> FALSE]

\* the Config of no command
NoConfig ==
    [Merge |-> FALSE, Convert |-> FALSE, InputFiles |-> <<>>, OutputFile |-> <<>>,
     Recursive |-> FALSE]

\* the output path given to MergeFiles and ConvertFile when called directly
OutPath == <<"o">>

\* time.Now().Format("2006-01-02"): the days the program may run on
FirstDate == <<"2", "0", "2", "4", "-", "0", "2", "-", "2", "9">>
Dates == {FirstDate, <<"2", "0", "2", "5", "-", "1", "2", "-", "3", "1">>}

\* a run that makes no document: the day and the random source do not matter
NoDocument == today = FirstDate /\ entropy = OneDraw

\* ReadFile(PathA) is called
InitRead ==
    /\ NoDocument
    /\ probe = NoProbe
    /\ disk \in RichDisks
    /\ op = "read"
    /\ pc = "read_open"
    /\ filename = PathA
    /\ inputFiles = <<>>
    /\ outputFile = OutPath

\* ConvertFile(PathA, output) is called: it reads the input first
InitConvert ==
    /\ today \in Dates
    /\ entropy = AssemblerDraws
    /\ probe = NoProbe
    /\ disk \in ConvertDisks
    /\ op = "convert"
    /\ pc = "read_open"
    /\ filename = PathA
    /\ inputFiles = <<>>
    /\ outputFile \in {OutPath, PathB}

\* MergeFiles(inputFiles, output) is called
InitMerge ==
    /\ NoDocument
    /\ probe = NoProbe
    /\ disk \in LeanDisks
    /\ op = "merge"
    /\ pc = "merge_create"
    /\ filename = <<>>
    /\ inputFiles \in SeqsUpTo(InputPaths, MaxFiles)
    /\ outputFile = OutPath

\* isImageFile and getMimeType are called on a file name
InitProbe ==
    /\ NoDocument
    /\ probe \in ProbeInputs
    /\ disk = [p \in InputPaths |-> Zip(<<>>)]
    /\ op = "probe"
    /\ pc = "probe"
    /\ filename = <<>>
    /\ inputFiles = <<>>
    /\ outputFile = OutPath

\* nothing has run yet
NotStarted ==
    /\ cbzFile = NoFile
    /\ ri = 0
    /\ readErr = "none"
    /\ chapterIndex = 0
    /\ imageCounter = 0
    /\ ii = 0
    /\ contentOPF = <<>>
    /\ tocNCX = <<>>
    /\ out = NoOutput
    /\ ret = "none"
    /\ handles = {}
    /\ title = <<>>
    /\ date = <<>>
    /\ uuid = <<>>
    /\ issued = <<>>
    /\ argIndex = 0
    /\ conversionError = "nil"
    /\ dirStack = <<>>
    /\ calls = <<>>
    /\ cmdErr = "none"

\* an entry point of the packages cbz and epub is called directly
NoCommand ==
    /\ caller = "none"
    /\ config = NoConfig
    /\ args = <<>>

Init ==
    /\ InitRead \/ InitConvert \/ InitMerge \/ InitProbe
    /\ NoCommand
    /\ NotStarted

\* isImageFile(name) and getMimeType(name) are called
Probe ==
    /\ pc = "probe"
    /\ probe' = [probe EXCEPT !.isImage = isImageFile(ProbeName(probe)),
                              !.mime = getMimeType(ProbeName(probe)),
                              !.applied = TRUE]
    /\ pc' = "done"
    /\ UNCHANGED <<cmdVars, outputFile, docVars, handles, disk, op, filename, cbzFile, ri,
                   readErr, inputFiles, chapterIndex, imageCounter, ii, contentOPF, tocNCX,
                   out, ret>>

(***************************************************************************)
(* cbz.ReadFile                                                            *)
(***************************************************************************)
\* An Image, with the position of its entry in the container (entry is not a
\* field of the program's Image: it records where the image came from).
Image(file, idx) ==
    [Name |-> Base(file.Name), Data |-> file.Data,
     MimeType |-> getMimeType(file.Name), entry |-> idx]

\* the less function passed to sort.Slice
Less(a, b) == StrLess(a.Name, b.Name)

IsSortedBy(s) == \A i, j \in 1..Len(s) : i < j => ~Less(s[j], s[i])

\* sort.Slice: it leaves the slice sorted by Less; it is not a stable sort, so
\* the order it leaves among elements that compare equal is any order.
SortSlice(images) ==
    {t \in {[i \in 1..Len(images) |-> images[p[i]]] :
                p \in Permutations(1..Len(images))} : IsSortedBy(t)}

\* a handle is opened: it is open until it is closed
Acquire(h, name) == h \cup {name}

\* Close without effect on the entry reader
ReleaseExceptRc(h, name) == IF name = "rc" THEN h ELSE h \ {name}

\* Close on a handle
Release(h, name) == h \ {name}

\* where the entry point returns to: its caller in the command, if it has one
ReturnPc == IF caller = "none" THEN "done" ELSE "returned"

\* where ReadFile returns to
AfterRead ==
    CASE op = "read" -> "done"
      [] op = "merge" -> "merge_read_ret"
      [] op = "convert" -> "convert_read_ret"

\* the deferred zipReader.Close() runs as ReadFile returns
ReaderClosed == handles' = Release(handles, "zipReader")

ReadReturns(err) ==
    /\ readErr' = err
    /\ pc' = AfterRead
    /\ ret' = IF op = "read" THEN err ELSE ret

\* zip.OpenReader fails: the error is returned
ReadOpenFail ==
    /\ pc = "read_open"
    /\ ~disk[filename].valid
    /\ ReadReturns("open")
    /\ cbzFile' = NoFile
    /\ UNCHANGED <<cmdVars, outputFile, docVars, handles, probe, disk, op, filename, ri, inputFiles, chapterIndex,
                   imageCounter, ii, contentOPF, tocNCX, out>>

\* zip.OpenReader succeeds: the File is created with no images
ReadOpen ==
    /\ pc = "read_open"
    /\ disk[filename].valid
    /\ handles' = Acquire(handles, "zipReader")
    /\ cbzFile' = [Name |-> filename, Images |-> <<>>]
    /\ ri' = 1
    /\ readErr' = "none"
    /\ pc' = "read_loop"
    /\ UNCHANGED <<cmdVars, outputFile, docVars, probe, disk, op, filename, inputFiles, chapterIndex,
                   imageCounter, ii, contentOPF, tocNCX, out, ret>>

\* the entry the loop is at
CurFile == disk[filename].File[ri]

\* the condition without the IsDir test
SkipsNoDirCheck(file) == ~isImageFile(file.Name)

\* the condition of the continue statement
Skips(file) == file.IsDir \/ ~isImageFile(file.Name)

\* a directory or a file that is no image: continue
ReadSkip ==
    /\ pc = "read_loop"
    /\ ri <= Len(disk[filename].File)
    /\ Skips(CurFile)
    /\ ri' = ri + 1
    /\ UNCHANGED <<cmdVars, outputFile, docVars, handles, probe, disk, op, pc, filename, cbzFile, readErr, inputFiles, chapterIndex,
                   imageCounter, ii, contentOPF, tocNCX, out, ret>>

\* file.Open fails, as it may on an entry that is corrupt: the error is
\* returned
ReadEntryOpenFail ==
    /\ pc = "read_loop"
    /\ ri <= Len(disk[filename].File)
    /\ ~Skips(CurFile)
    /\ CurFile.Corrupt
    /\ ReadReturns("read")
    /\ ReaderClosed
    /\ cbzFile' = NoFile
    /\ UNCHANGED <<cmdVars, outputFile, docVars, probe, disk, op, filename, ri, inputFiles, chapterIndex,
                   imageCounter, ii, contentOPF, tocNCX, out>>

\* file.Open succeeds: rc is the reader of the entry
ReadEntryOpen ==
    /\ pc = "read_loop"
    /\ ri <= Len(disk[filename].File)
    /\ ~Skips(CurFile)
    /\ handles' = Acquire(handles, "rc")
    /\ pc' = "read_entry"
    /\ UNCHANGED <<cmdVars, outputFile, docVars, probe, disk, op, filename, cbzFile, ri, readErr, inputFiles, chapterIndex,
                   imageCounter, ii, contentOPF, tocNCX, out, ret>>

\* io.ReadAll fails on an entry that is corrupt; rc.Close(); the error is
\* returned
ReadEntryFail ==
    /\ pc = "read_entry"
    /\ CurFile.Corrupt
    /\ ReadReturns("read")
    /\ handles' = Release(Release(handles, "rc"), "zipReader")
    /\ cbzFile' = NoFile
    /\ UNCHANGED <<cmdVars, outputFile, docVars, probe, disk, op, filename, ri, inputFiles, chapterIndex,
                   imageCounter, ii, contentOPF, tocNCX, out>>

\* an image is added unless one of the same name is there already
AppendImageUnique(images, image) ==
    IF \E k \in 1..Len(images) : images[k].Name = image.Name THEN images
    ELSE Append(images, image)

\* cbzFile.Images = append(cbzFile.Images, Image{...})
AppendImage(images, image) == Append(images, image)

\* io.ReadAll reads the data; rc.Close(); the image is appended
ReadAppend ==
    /\ pc = "read_entry"
    /\ ~CurFile.Corrupt
    /\ handles' = Release(handles, "rc")
    /\ cbzFile' = [cbzFile EXCEPT !.Images = AppendImage(@, Image(CurFile, ri))]
    /\ ri' = ri + 1
    /\ pc' = "read_loop"
    /\ UNCHANGED <<cmdVars, outputFile, docVars, probe, disk, op, filename, readErr, inputFiles, chapterIndex,
                   imageCounter, ii, contentOPF, tocNCX, out, ret>>

\* after the loop: the images are sorted and the File is returned
ReadSort ==
    /\ pc = "read_loop"
    /\ ri > Len(disk[filename].File)
    /\ \E sorted \in SortSlice(cbzFile.Images) :
           cbzFile' = [cbzFile EXCEPT !.Images = sorted]
    /\ ReadReturns("nil")
    /\ ReaderClosed
    /\ UNCHANGED <<cmdVars, outputFile, docVars, probe, disk, op, filename, ri, inputFiles, chapterIndex,
                   imageCounter, ii, contentOPF, tocNCX, out>>

ReadFile ==
    \/ ReadOpenFail \/ ReadOpen \/ ReadSkip \/ ReadEntryOpenFail \/ ReadEntryOpen
    \/ ReadEntryFail \/ ReadAppend \/ ReadSort

(***************************************************************************)
(* The output container: os.Create, zip.Writer and the deferred Close      *)
(* calls.                                                                  *)
(***************************************************************************)
\* what one zipWriter.Create (or CreateHeader) followed by one Write can do
WriteOutcomes == {"ok", "createFail", "writeFail"}

\* An entry of the output container. written: its Write returned no error.
OutEntry(name, method, body, written) ==
    [Name |-> name, Method |-> method, Body |-> body, written |-> written]

\* The writer after Create(name) and Write(body) with the given outcome: a
\* failed Create adds no entry, a failed Write leaves the entry incomplete.
WriteEntry(o, name, method, body, outcome) ==
    CASE outcome = "createFail" -> [o EXCEPT !.failed = TRUE]
      [] outcome = "writeFail" ->
            [o EXCEPT !.entries = Append(@, OutEntry(name, method, body, FALSE)),
                      !.failed = TRUE]
      [] OTHER -> [o EXCEPT !.entries = Append(@, OutEntry(name, method, body, TRUE))]

\* os.Create succeeded and zip.NewWriter wraps the file
NewOutput == [NoOutput EXCEPT !.created = TRUE]

\* os.Create(path) succeeded: the file at the path, whatever it held, is empty
Created(d, path) == IF path \in DOMAIN d THEN [d EXCEPT ![path] = NotZip] ELSE d

\* zipWriter.Close() has run on the file at the path: when it succeeded the
\* file is the archive of the entries handed to the writer, an entry whose
\* write failed being incomplete; when it failed the file is no archive
Flushed(d, path, o, closeOk) ==
    IF path \notin DOMAIN d THEN d
    ELSE [d EXCEPT ![path] =
              IF closeOk
              THEN Zip([n \in 1..Len(o.entries) |->
                           Entry(o.entries[n].Name, FALSE, o.entries[n].Body,
                                 ~o.entries[n].written)])
              ELSE NotZip]

\* The deferred calls, run in reverse order after the result is set:
\* zipWriter.Close() writes the central directory and may fail; zipFile.Close()
\* closes the file. Neither error reaches the caller: the result set before
\* the defers ran is what the function returns.
DeferWriterClose ==
    /\ pc = "defers"
    /\ \E closeOk \in BOOLEAN :
           /\ out' = [out EXCEPT !.finalized = closeOk,
                                 !.failed = @ \/ ~closeOk]
           /\ disk' = Flushed(disk, outputFile, out, closeOk)
    /\ handles' = Release(handles, "zipWriter")
    /\ pc' = "defer_file"
    /\ UNCHANGED <<cmdVars, outputFile, docVars, probe, op, filename, cbzFile, ri, readErr, inputFiles, chapterIndex,
                   imageCounter, ii, contentOPF, tocNCX, ret>>

DeferFileClose ==
    /\ pc = "defer_file"
    /\ out' = [out EXCEPT !.closed = TRUE]
    /\ handles' = Release(handles, "zipFile")
    /\ pc' = ReturnPc
    /\ UNCHANGED <<cmdVars, outputFile, docVars, probe, disk, op, filename, cbzFile, ri, readErr, inputFiles, chapterIndex,
                   imageCounter, ii, contentOPF, tocNCX, ret>>

RunDefers == DeferWriterClose \/ DeferFileClose

(***************************************************************************)
(* cbz.MergeFiles                                                          *)
(***************************************************************************)
\* os.Create fails: the error is returned, nothing is deferred yet
MergeCreateFail ==
    /\ pc = "merge_create"
    /\ ret' = "error"
    /\ pc' = ReturnPc
    /\ UNCHANGED <<cmdVars, outputFile, docVars, handles, probe, disk, op, filename, cbzFile, ri, readErr, inputFiles, chapterIndex,
                   imageCounter, ii, contentOPF, tocNCX, out>>

\* os.Create succeeds; imageCounter := 1 and the loop over inputFiles begins
MergeCreate ==
    /\ pc = "merge_create"
    /\ Stat(outputFile) # "dir"
    /\ disk' = Created(disk, outputFile)
    /\ out' = NewOutput
    /\ handles' = Acquire(Acquire(handles, "zipFile"), "zipWriter")
    /\ imageCounter' = 1
    /\ chapterIndex' = 0
    /\ pc' = "merge_loop"
    /\ UNCHANGED <<cmdVars, outputFile, docVars, probe, op, filename, cbzFile, ri, readErr, inputFiles,
                   ii, contentOPF, tocNCX, ret>>

\* the next input file is read
MergeNextFile ==
    /\ pc = "merge_loop"
    /\ chapterIndex < Len(inputFiles)
    /\ filename' = inputFiles[chapterIndex + 1]
    /\ pc' = "read_open"
    /\ UNCHANGED <<cmdVars, outputFile, docVars, handles, probe, disk, op, cbzFile, ri, readErr, inputFiles, chapterIndex,
                   imageCounter, ii, contentOPF, tocNCX, out, ret>>

\* the input that cannot be read is passed over and the loop goes on
MergeReadFailSkips ==
    /\ pc = "merge_read_ret"
    /\ readErr # "nil"
    /\ chapterIndex' = chapterIndex + 1
    /\ pc' = "merge_loop"
    /\ UNCHANGED <<cmdVars, outputFile, docVars, handles, probe, disk, op, filename, cbzFile, ri, readErr, inputFiles,
                   imageCounter, ii, contentOPF, tocNCX, out, ret>>

\* ReadFile returned an error: MergeFiles returns it
MergeReadFail ==
    /\ pc = "merge_read_ret"
    /\ readErr # "nil"
    /\ ret' = "error"
    /\ pc' = "defers"
    /\ UNCHANGED <<cmdVars, outputFile, docVars, handles, probe, disk, op, filename, cbzFile, ri, readErr, inputFiles, chapterIndex,
                   imageCounter, ii, contentOPF, tocNCX, out>>

\* ReadFile returned the File: the loop over its images begins
MergeReadOk ==
    /\ pc = "merge_read_ret"
    /\ readErr = "nil"
    /\ ii' = 0
    /\ pc' = "merge_images"
    /\ UNCHANGED <<cmdVars, outputFile, docVars, handles, probe, disk, op, filename, cbzFile, ri, readErr, inputFiles, chapterIndex,
                   imageCounter, contentOPF, tocNCX, out, ret>>

\* a name made of the chapter and the image's own name
MergeNameKeepsName(chapter, counter, imgName) ==
    ChapterPrefix \o Pad3(chapter + 1) \o <<"_">> \o imgName

\* a name whose sequence number starts at 0
MergeNameCounterFromZero(chapter, counter, imgName) ==
    ChapterPrefix \o Pad3(chapter + 1) \o <<"_">> \o Pad3(counter - 1) \o Ext(imgName)

\* a name with the extension in lower case
MergeNameLowerExt(chapter, counter, imgName) ==
    ChapterPrefix \o Pad3(chapter + 1) \o <<"_">> \o Pad3(counter) \o ToLower(Ext(imgName))

\* fmt.Sprintf("chapter%03d_%03d%s", chapterIndex+1, imageCounter, ext)
MergeName(chapter, counter, imgName) ==
    ChapterPrefix \o Pad3(chapter + 1) \o <<"_">> \o Pad3(counter) \o Ext(imgName)

\* one iteration of the loop over the images: the name, the counter, Create, Write
MergeImage ==
    /\ pc = "merge_images"
    /\ ii < Len(cbzFile.Images)
    /\ LET image == cbzFile.Images[ii + 1]
           newName == MergeName(chapterIndex, imageCounter, image.Name)
       IN  \E outcome \in WriteOutcomes :
               /\ out' = WriteEntry(out, newName, "Deflate", image.Data, outcome)
               /\ IF outcome = "ok"
                  THEN /\ ii' = ii + 1
                       /\ UNCHANGED <<pc, ret>>
                  ELSE /\ ret' = "error"
                       /\ pc' = "defers"
                       /\ UNCHANGED ii
    /\ imageCounter' = imageCounter + 1
    /\ UNCHANGED <<cmdVars, outputFile, docVars, handles, probe, disk, op, filename, cbzFile, ri, readErr, inputFiles, chapterIndex,
                   contentOPF, tocNCX>>

\* the images of this file are written: on to the next input file
MergeImagesDone ==
    /\ pc = "merge_images"
    /\ ii = Len(cbzFile.Images)
    /\ chapterIndex' = chapterIndex + 1
    /\ pc' = "merge_loop"
    /\ UNCHANGED <<cmdVars, outputFile, docVars, handles, probe, disk, op, filename, cbzFile, ri, readErr, inputFiles,
                   imageCounter, ii, contentOPF, tocNCX, out, ret>>

\* every input file is merged: return nil
MergeReturn ==
    /\ pc = "merge_loop"
    /\ chapterIndex = Len(inputFiles)
    /\ ret' = "nil"
    /\ pc' = "defers"
    /\ UNCHANGED <<cmdVars, outputFile, docVars, handles, probe, disk, op, filename, cbzFile, ri, readErr, inputFiles, chapterIndex,
                   imageCounter, ii, contentOPF, tocNCX, out>>

MergeFiles ==
    \/ MergeCreateFail \/ MergeCreate \/ MergeNextFile \/ MergeReadFail \/ MergeReadOk
    \/ MergeImage \/ MergeImagesDone \/ MergeReturn

(***************************************************************************)
(* epub.ConvertFile and epub.ConvertFromCBZ                                *)
(***************************************************************************)
\* One element of the content.opf buffer: a manifest item or a spine itemref.
ManifestItem(id, href, mediaType) ==
    [tag |-> "item", id |-> id, href |-> href, mediaType |-> mediaType]

Itemref(idref) == [tag |-> "itemref", id |-> idref, href |-> <<>>, mediaType |-> ""]

\* the metadata element of the package
Metadata(t, id, d) ==
    [tag |-> "metadata", title |-> t, language |-> "en", identifier |-> UrnUuid \o id,
     date |-> d, creator |-> "CBZ2EPUB Converter"]

\* the buffer as first created: the head of the package and the ncx item
OpfHead(t, id, d) ==
    <<Metadata(t, id, d), ManifestItem(NcxId, TocHref, "application/x-dtbncx+xml")>>

\* a title that is the name with its directories
TitleOfKeepsDir(name) == TrimSuffix(name, ExtCbz)

\* strings.TrimSuffix(filepath.Base(cbzFile.Name), ".cbz")
TitleOf(name) == TrimSuffix(Base(name), ExtCbz)

\* an image name numbered from 0
ImageNameZeroBased(i, imgName) == ImagePrefix \o Pad3(i) \o Ext(imgName)

\* fmt.Sprintf("image%03d%s", i+1, ext)
ImageName(i, imgName) == ImagePrefix \o Pad3(i + 1) \o Ext(imgName)

\* fmt.Sprintf("page%03d.xhtml", i+1)
PageName(i) == PagePrefix \o Pad3(i + 1) \o XhtmlSuffix

\* one id for every image
ImageIdUnnumbered(i) == ImagePrefix

\* the ids "image%03d" and "page%03d"
ImageId(i) == ImagePrefix \o Pad3(i + 1)
PageId(i) == PagePrefix \o Pad3(i + 1)

\* the wrapper page: its title number and the src of its img element
PageBody(i, newName) == [page |-> Itoa(i + 1), src |-> ImgSrcPrefix \o newName]

\* the spine: one itemref per image, by the range loop over cbzFile.Images
\* a spine in descending order
SpineReversed(n) == [k \in 1..n |-> Itemref(PageId(n - k))]

Spine(n) == [k \in 1..n |-> Itemref(PageId(k - 1))]

\* the navMap: one navPoint per image, by the range loop over cbzFile.Images
NavPoint(i) ==
    [tag |-> "navPoint", id |-> Itoa(i + 1), playOrder |-> Itoa(i + 1),
     label |-> Itoa(i + 1), src |-> PagesHref \o PageName(i)]

NavMap(n) == [k \in 1..n |-> NavPoint(k - 1)]

\* a head whose identifier lacks the urn:uuid: prefix
NcxHeadBareUid(id, t) == <<[tag |-> "head", uid |-> id, docTitle |-> t]>>

\* the toc.ncx buffer as first created: the head with dtb:uid, and docTitle
NcxHead(id, t) == <<[tag |-> "head", uid |-> UrnUuid \o id, docTitle |-> t]>>

\* ReadFile returned an error: the output is created and the error returned
ConvertReadFailCreates ==
    /\ pc = "convert_read_ret"
    /\ readErr # "nil"
    /\ disk' = Created(disk, outputFile)
    /\ out' = [NewOutput EXCEPT !.closed = TRUE]
    /\ ret' = "error"
    /\ pc' = ReturnPc
    /\ UNCHANGED <<cmdVars, outputFile, docVars, handles, probe, op, filename, cbzFile, ri, readErr, inputFiles, chapterIndex,
                   imageCounter, ii, contentOPF, tocNCX>>

\* ReadFile returned an error: ConvertFile returns it
ConvertReadFail ==
    /\ pc = "convert_read_ret"
    /\ readErr # "nil"
    /\ ret' = "error"
    /\ pc' = ReturnPc
    /\ UNCHANGED <<cmdVars, outputFile, docVars, handles, probe, disk, op, filename, cbzFile, ri, readErr, inputFiles, chapterIndex,
                   imageCounter, ii, contentOPF, tocNCX, out>>

\* ReadFile returned the File: ConvertFromCBZ is called with it
ConvertReadOk ==
    /\ pc = "convert_read_ret"
    /\ readErr = "nil"
    /\ pc' = "conv_create"
    /\ UNCHANGED <<cmdVars, outputFile, docVars, handles, probe, disk, op, filename, cbzFile, ri, readErr, inputFiles, chapterIndex,
                   imageCounter, ii, contentOPF, tocNCX, out, ret>>

\* os.Create fails: the error is returned, nothing is deferred yet
ConvCreateFail ==
    /\ pc = "conv_create"
    /\ ret' = "error"
    /\ pc' = ReturnPc
    /\ UNCHANGED <<cmdVars, outputFile, docVars, handles, probe, disk, op, filename, cbzFile, ri, readErr, inputFiles, chapterIndex,
                   imageCounter, ii, contentOPF, tocNCX, out>>

\* os.Create succeeds
ConvCreate ==
    /\ pc = "conv_create"
    /\ Stat(outputFile) # "dir"
    /\ disk' = Created(disk, outputFile)
    /\ out' = NewOutput
    /\ handles' = Acquire(Acquire(handles, "zipFile"), "zipWriter")
    /\ pc' = "conv_mimetype"
    /\ UNCHANGED <<cmdVars, outputFile, docVars, probe, op, filename, cbzFile, ri, readErr, inputFiles, chapterIndex,
                   imageCounter, ii, contentOPF, tocNCX, ret>>

\* The step of ConvertFromCBZ after a Create and Write with the given
\* outcome: on to nextPc, or return the error.
ConvStep(outcome, nextPc) ==
    IF outcome = "ok"
    THEN pc' = nextPc /\ UNCHANGED ret
    ELSE pc' = "defers" /\ ret' = "error"

\* the default method of zipWriter.Create
MimetypeMethodDeflate == "Deflate"

\* the Method of the FileHeader of the mimetype entry
MimetypeMethod == "Store"

\* the mimetype entry, by CreateHeader
ConvMimetype ==
    /\ pc = "conv_mimetype"
    /\ \E outcome \in WriteOutcomes :
           /\ out' = WriteEntry(out, MimetypeName, MimetypeMethod, MimetypeContent, outcome)
           /\ ConvStep(outcome, "conv_container")
    /\ UNCHANGED <<cmdVars, outputFile, docVars, handles, probe, disk, op, filename, cbzFile, ri, readErr, inputFiles, chapterIndex,
                   imageCounter, ii, contentOPF, tocNCX>>

\* META-INF/container.xml; then the content.opf buffer is created
ConvContainer ==
    /\ pc = "conv_container"
    /\ \E outcome \in WriteOutcomes :
           /\ out' = WriteEntry(out, ContainerName, "Deflate",
                                [rootfile |-> ContentOpfName], outcome)
           /\ ConvStep(outcome, "conv_images")
           /\ IF outcome = "ok"
              THEN \E rb \in entropy :
                       /\ title' = TitleOf(cbzFile.Name)
                       /\ date' = today
                       /\ uuid' = GenerateUUID(rb)
                       /\ issued' = Append(issued, uuid')
                       /\ contentOPF' = OpfHead(title', uuid', date')
              ELSE UNCHANGED <<docVars, contentOPF>>
    /\ ii' = 0
    /\ UNCHANGED <<cmdVars, outputFile, handles, probe, disk, op, filename, cbzFile, ri, readErr, inputFiles, chapterIndex,
                   imageCounter, tocNCX>>

\* one iteration of the first loop: the manifest item of the image, its entry
ConvImage ==
    /\ pc = "conv_images"
    /\ ii < Len(cbzFile.Images)
    /\ LET image == cbzFile.Images[ii + 1]
           newName == ImageName(ii, image.Name)
       IN  /\ contentOPF' = Append(contentOPF,
                   ManifestItem(ImageId(ii), ImagesHref \o newName, image.MimeType))
           /\ \E outcome \in WriteOutcomes :
                  /\ out' = WriteEntry(out, ImagesDir \o newName, "Deflate",
                                       image.Data, outcome)
                  /\ ConvStep(outcome, "conv_images")
                  /\ ii' = IF outcome = "ok" THEN ii + 1 ELSE ii
    /\ UNCHANGED <<cmdVars, outputFile, docVars, handles, probe, disk, op, filename, cbzFile, ri, readErr, inputFiles, chapterIndex,
                   imageCounter, tocNCX>>

\* the first loop ends, the second begins
ConvImagesDone ==
    /\ pc = "conv_images"
    /\ ii = Len(cbzFile.Images)
    /\ ii' = 0
    /\ pc' = "conv_pages"
    /\ UNCHANGED <<cmdVars, outputFile, docVars, handles, probe, disk, op, filename, cbzFile, ri, readErr, inputFiles, chapterIndex,
                   imageCounter, contentOPF, tocNCX, out, ret>>

\* one iteration of the second loop: the manifest item of the page, its entry
ConvPage ==
    /\ pc = "conv_pages"
    /\ ii < Len(cbzFile.Images)
    /\ LET image == cbzFile.Images[ii + 1]
           newName == ImageName(ii, image.Name)
           pageName == PageName(ii)
       IN  /\ contentOPF' = Append(contentOPF,
                   ManifestItem(PageId(ii), PagesHref \o pageName, "application/xhtml+xml"))
           /\ \E outcome \in WriteOutcomes :
                  /\ out' = WriteEntry(out, PagesDir \o pageName, "Deflate",
                                       PageBody(ii, newName), outcome)
                  /\ ConvStep(outcome, "conv_pages")
                  /\ ii' = IF outcome = "ok" THEN ii + 1 ELSE ii
    /\ UNCHANGED <<cmdVars, outputFile, docVars, handles, probe, disk, op, filename, cbzFile, ri, readErr, inputFiles, chapterIndex,
                   imageCounter, tocNCX>>

\* the second loop ends: the spine finishes the buffer, content.opf is written,
\* then the toc.ncx buffer is built
ConvContentOpf ==
    /\ pc = "conv_pages"
    /\ ii = Len(cbzFile.Images)
    /\ contentOPF' = contentOPF \o Spine(Len(cbzFile.Images))
    /\ \E outcome \in WriteOutcomes :
           /\ out' = WriteEntry(out, ContentOpfName, "Deflate", contentOPF', outcome)
           /\ ConvStep(outcome, "conv_toc")
           /\ tocNCX' = IF outcome = "ok"
                        THEN NcxHead(uuid, title) \o NavMap(Len(cbzFile.Images))
                        ELSE tocNCX
    /\ UNCHANGED <<cmdVars, outputFile, docVars, handles, probe, disk, op, filename, cbzFile, ri, readErr, inputFiles, chapterIndex,
                   imageCounter, ii>>

\* toc.ncx is written; return nil
ConvToc ==
    /\ pc = "conv_toc"
    /\ \E outcome \in WriteOutcomes :
           /\ out' = WriteEntry(out, TocNcxName, "Deflate", tocNCX, outcome)
           /\ pc' = "defers"
           /\ ret' = IF outcome = "ok" THEN "nil" ELSE "error"
    /\ UNCHANGED <<cmdVars, outputFile, docVars, handles, probe, disk, op, filename, cbzFile, ri, readErr, inputFiles, chapterIndex,
                   imageCounter, ii, contentOPF, tocNCX>>

ConvertFile == ConvertReadFail \/ ConvertReadOk

ConvertFromCBZ ==
    \/ ConvCreateFail \/ ConvCreate \/ ConvMimetype \/ ConvContainer \/ ConvImage
    \/ ConvImagesDone \/ ConvPage \/ ConvContentOpf \/ ConvToc

(***************************************************************************)
(* The command: handleMergeCommand, handleConvertCommand and               *)
(* processDirectory. The log lines they print are not modelled, so neither *)
(* is config.Verbose. filepath.Glob fails only on a malformed pattern and  *)
(* os.ReadDir only on a directory that cannot be listed: the directories   *)
(* of the model have plain names and can be listed.                        *)
(***************************************************************************)
\* The variables of a function of the packages cbz and epub, as they are
\* when it is called and again when it has returned.
Fresh ==
    /\ cbzFile' = NoFile
    /\ ri' = 0
    /\ readErr' = "none"
    /\ chapterIndex' = 0
    /\ imageCounter' = 0
    /\ ii' = 0
    /\ contentOPF' = <<>>
    /\ tocNCX' = <<>>
    /\ out' = NoOutput
    /\ ret' = "none"
    /\ title' = <<>>
    /\ date' = <<>>
    /\ uuid' = <<>>

\* a function of the packages cbz or epub is called
Call(entry, first, from) ==
    /\ op' = entry
    /\ pc' = first
    /\ caller' = from
    /\ Fresh
    /\ UNCHANGED <<probe, disk, handles, issued, args, today, entropy>>

\* it has returned to the command
Returned ==
    /\ op' = "none"
    /\ caller' = "none"
    /\ filename' = <<>>
    /\ inputFiles' = <<>>
    /\ outputFile' = <<>>
    /\ Fresh
    /\ UNCHANGED <<probe, disk, handles, issued, args, today, entropy>>

\* what the functions of cbz and epub hold: the command leaves it alone
calleeVars ==
    <<probe, disk, op, filename, cbzFile, ri, readErr, inputFiles, chapterIndex,
      imageCounter, ii, contentOPF, tocNCX, out, ret, outputFile, handles,
      title, date, uuid, issued, caller, args, today, entropy>>

\* an output path that is the input path followed by .epub
EpubPathAppends(inputFile) == inputFile \o ExtEpub

\* strings.TrimSuffix(inputFile, ".cbz") + ".epub"
EpubPath(inputFile) == TrimSuffix(inputFile, ExtCbz) \o ExtEpub

\* a test of the name as it is written
IsCbzNameExact(inputFile) == HasSuffix(inputFile, ExtCbz)

\* strings.HasSuffix(strings.ToLower(inputFile), ".cbz")
IsCbzName(inputFile) == HasSuffix(ToLower(inputFile), ExtCbz)

\* ConvertFile(input, output) is called: the log of calls gets an entry
Logged(input, output) == Append(calls, [input |-> input, output |-> output, err |-> "none"])

\* ConvertFile has returned err: the entry of the call gets it
LoggedReturn(err) == [calls EXCEPT ![Len(calls)].err = err]

\* the inputs in the order given
SortStringsNot(s) == s

\* sort.Strings: the strings in ascending order
RECURSIVE InsertString(_, _)
InsertString(x, s) ==
    IF s = <<>> THEN <<x>>
    ELSE IF StrLess(x, Head(s)) THEN <<x>> \o s
    ELSE <<Head(s)>> \o InsertString(x, Tail(s))

RECURSIVE SortStrings(_)
SortStrings(s) == IF s = <<>> THEN <<>> ELSE InsertString(Head(s), SortStrings(Tail(s)))

DefaultMergeOutput == <<"m", "e", "r", "g", "e", "d", ".", "c", "b", "z">>

\* handleMergeCommand with no input files
CmdMergeNoInput ==
    /\ pc = "cmd_merge"
    /\ Len(config.InputFiles) = 0
    /\ cmdErr' = "error"
    /\ pc' = "done"
    /\ UNCHANGED <<calleeVars, config, argIndex, conversionError, dirStack, calls>>

\* handleMergeCommand: the input files are sorted, the output defaults to
\* merged.cbz, and cbz.MergeFiles is called
CmdMergeCall ==
    /\ pc = "cmd_merge"
    /\ Len(config.InputFiles) > 0
    /\ config' = [config EXCEPT !.InputFiles = SortStrings(@)]
    /\ inputFiles' = config'.InputFiles
    /\ outputFile' = IF config.OutputFile = <<>> THEN DefaultMergeOutput
                     ELSE config.OutputFile
    /\ Call("merge", "merge_create", "handleMergeCommand")
    /\ UNCHANGED <<filename, argIndex, conversionError, dirStack, calls, cmdErr>>

\* cbz.MergeFiles has returned: handleMergeCommand returns its error
CmdMergeRet ==
    /\ pc = "returned"
    /\ caller = "handleMergeCommand"
    /\ cmdErr' = IF ret = "nil" THEN "nil" ELSE "error"
    /\ pc' = "done"
    /\ Returned
    /\ UNCHANGED <<config, argIndex, conversionError, dirStack, calls>>

handleMergeCommand == CmdMergeNoInput \/ CmdMergeCall \/ CmdMergeRet

\* handleConvertCommand with no input files
CmdConvertNoInput ==
    /\ pc = "cmd_convert"
    /\ Len(config.InputFiles) = 0
    /\ cmdErr' = "error"
    /\ pc' = "done"
    /\ UNCHANGED <<calleeVars, config, argIndex, conversionError, dirStack, calls>>

\* handleConvertCommand: the loop over the input files begins
CmdConvertStart ==
    /\ pc = "cmd_convert"
    /\ Len(config.InputFiles) > 0
    /\ argIndex' = 0
    /\ conversionError' = "nil"
    /\ pc' = "cmd_loop"
    /\ UNCHANGED <<calleeVars, config, dirStack, calls, cmdErr>>

\* the input file the loop is at
InputFile == config.InputFiles[argIndex + 1]

AtInput == pc = "cmd_loop" /\ argIndex < Len(config.InputFiles)

\* os.Stat fails and the command returns the error at once
CmdStatFailReturns ==
    /\ AtInput
    /\ Stat(InputFile) = "missing"
    /\ conversionError' = "error"
    /\ cmdErr' = "error"
    /\ pc' = "done"
    /\ UNCHANGED <<calleeVars, config, argIndex, dirStack, calls>>

\* os.Stat fails: the error is kept and the loop goes on
CmdStatFail ==
    /\ AtInput
    /\ Stat(InputFile) = "missing"
    /\ conversionError' = "error"
    /\ argIndex' = argIndex + 1
    /\ UNCHANGED <<calleeVars, pc, config, dirStack, calls, cmdErr>>

\* a directory without -recursive: skipped
CmdDirSkip ==
    /\ AtInput
    /\ Stat(InputFile) = "dir"
    /\ ~config.Recursive
    /\ argIndex' = argIndex + 1
    /\ UNCHANGED <<calleeVars, pc, config, conversionError, dirStack, calls, cmdErr>>

\* a frame of processDirectory as it starts
Frame(dirPath) ==
    [dirPath |-> dirPath, files |-> <<>>, fi |-> 0, processingError |-> "nil",
     subdirs |-> <<>>, si |-> 0]

\* a directory with -recursive: processDirectory is called
CmdDirEnter ==
    /\ AtInput
    /\ Stat(InputFile) = "dir"
    /\ config.Recursive
    /\ dirStack' = Append(dirStack, Frame(InputFile))
    /\ pc' = "dir_glob"
    /\ UNCHANGED <<calleeVars, config, argIndex, conversionError, calls, cmdErr>>

\* a file whose name does not end in .cbz: skipped
CmdNotCbz ==
    /\ AtInput
    /\ Stat(InputFile) = "file"
    /\ ~IsCbzName(InputFile)
    /\ argIndex' = argIndex + 1
    /\ UNCHANGED <<calleeVars, pc, config, conversionError, dirStack, calls, cmdErr>>

\* a file whose name ends in .cbz: the output path is chosen and
\* epub.ConvertFile is called
CmdConvertCall ==
    /\ AtInput
    /\ Stat(InputFile) = "file"
    /\ IsCbzName(InputFile)
    /\ filename' = InputFile
    /\ outputFile' = IF config.OutputFile = <<>> \/ Len(config.InputFiles) > 1
                     THEN EpubPath(InputFile)
                     ELSE config.OutputFile
    /\ calls' = Logged(InputFile, outputFile')
    /\ Call("convert", "read_open", "handleConvertCommand")
    /\ UNCHANGED <<inputFiles, config, argIndex, conversionError, dirStack, cmdErr>>

\* epub.ConvertFile has returned: its error is kept and the loop goes on
CmdConvertRet ==
    /\ pc = "returned"
    /\ caller = "handleConvertCommand"
    /\ conversionError' = IF ret = "nil" THEN conversionError ELSE "error"
    /\ calls' = LoggedReturn(ret)
    /\ argIndex' = argIndex + 1
    /\ pc' = "cmd_loop"
    /\ Returned
    /\ UNCHANGED <<config, dirStack, cmdErr>>

\* the loop is over: handleConvertCommand returns conversionError
CmdConvertDone ==
    /\ pc = "cmd_loop"
    /\ argIndex = Len(config.InputFiles)
    /\ cmdErr' = conversionError
    /\ pc' = "done"
    /\ UNCHANGED <<calleeVars, config, argIndex, conversionError, dirStack, calls>>

handleConvertCommand ==
    \/ CmdConvertNoInput \/ CmdConvertStart \/ CmdStatFail \/ CmdDirSkip \/ CmdDirEnter
    \/ CmdNotCbz \/ CmdConvertCall \/ CmdConvertRet \/ CmdConvertDone

\* the frame of the call of processDirectory that is running
Top == dirStack[Len(dirStack)]

\* the pattern *.cbz matches the name
MatchCbz(name) == HasSuffix(name, ExtCbz)

\* filepath.Glob(filepath.Join(dirPath, "*.cbz")): the paths of the names in
\* the directory that match, in the order of the names
Glob(dirPath) ==
    LET names == SelectSeq(disk[dirPath].children, MatchCbz)
    IN  [i \in 1..Len(names) |-> Join(dirPath, names[i])]

\* processDirectory returns err to its caller: to the call of
\* processDirectory below it, which keeps the first error and goes on with
\* its next subdirectory, or to handleConvertCommand, which keeps the error
\* and goes on with its next input
DirReturns(err) ==
    IF Len(dirStack) > 1
    THEN /\ dirStack' =
                LET below == dirStack[Len(dirStack) - 1]
                    kept == IF err # "nil" /\ below.processingError = "nil"
                            THEN err ELSE below.processingError
                IN  Append(SubSeq(dirStack, 1, Len(dirStack) - 2),
                           [below EXCEPT !.processingError = kept, !.si = @ + 1])
         /\ pc' = "dir_subdirs"
         /\ UNCHANGED <<conversionError, argIndex>>
    ELSE /\ dirStack' = <<>>
         /\ conversionError' = IF err # "nil" THEN err ELSE conversionError
         /\ argIndex' = argIndex + 1
         /\ pc' = "cmd_loop"

\* no file of the directory matches: processDirectory returns nil
DirNoFiles ==
    /\ pc = "dir_glob"
    /\ Len(Glob(Top.dirPath)) = 0
    /\ DirReturns("nil")
    /\ UNCHANGED <<calleeVars, config, calls, cmdErr>>

\* the files that match are found: the loop over them begins
DirGlob ==
    /\ pc = "dir_glob"
    /\ Len(Glob(Top.dirPath)) > 0
    /\ dirStack' = [dirStack EXCEPT ![Len(dirStack)].files = Glob(Top.dirPath)]
    /\ pc' = "dir_files"
    /\ UNCHANGED <<calleeVars, config, argIndex, conversionError, calls, cmdErr>>

\* the next file of the directory: epub.ConvertFile is called
DirFileCall ==
    /\ pc = "dir_files"
    /\ Top.fi < Len(Top.files)
    /\ LET file == Top.files[Top.fi + 1]
       IN  /\ filename' = file
           /\ outputFile' = EpubPath(file)
           /\ calls' = Logged(file, outputFile')
    /\ Call("convert", "read_open", "processDirectory")
    /\ UNCHANGED <<inputFiles, config, argIndex, conversionError, dirStack, cmdErr>>

\* epub.ConvertFile has returned: its error is kept and the loop goes on
DirFileRet ==
    /\ pc = "returned"
    /\ caller = "processDirectory"
    /\ dirStack' = [dirStack EXCEPT
                        ![Len(dirStack)].processingError = IF ret = "nil" THEN @ ELSE "error",
                        ![Len(dirStack)].fi = @ + 1]
    /\ calls' = LoggedReturn(ret)
    /\ pc' = "dir_files"
    /\ Returned
    /\ UNCHANGED <<config, argIndex, conversionError, cmdErr>>

\* the loop over the files is over: with -recursive the directory is listed
\* and the loop over what is in it begins; without, processDirectory returns
DirFilesDone ==
    /\ pc = "dir_files"
    /\ Top.fi = Len(Top.files)
    /\ IF config.Recursive
       THEN /\ dirStack' = [dirStack EXCEPT
                                ![Len(dirStack)].subdirs = disk[Top.dirPath].children,
                                ![Len(dirStack)].si = 0]
            /\ pc' = "dir_subdirs"
            /\ UNCHANGED <<conversionError, argIndex>>
       ELSE DirReturns(Top.processingError)
    /\ UNCHANGED <<calleeVars, config, calls, cmdErr>>

\* what the loop over the directory is at, as a path
SubPath == Join(Top.dirPath, Top.subdirs[Top.si + 1])

\* what is in the directory is no directory: passed over
DirSubSkip ==
    /\ pc = "dir_subdirs"
    /\ Top.si < Len(Top.subdirs)
    /\ Stat(SubPath) # "dir"
    /\ dirStack' = [dirStack EXCEPT ![Len(dirStack)].si = @ + 1]
    /\ UNCHANGED <<calleeVars, pc, config, argIndex, conversionError, calls, cmdErr>>

\* it is a directory: processDirectory is called on it
DirSubEnter ==
    /\ pc = "dir_subdirs"
    /\ Top.si < Len(Top.subdirs)
    /\ Stat(SubPath) = "dir"
    /\ dirStack' = Append(dirStack, Frame(SubPath))
    /\ pc' = "dir_glob"
    /\ UNCHANGED <<calleeVars, config, argIndex, conversionError, calls, cmdErr>>

\* the loop over the directory is over: processDirectory returns
\* processingError
DirReturn ==
    /\ pc = "dir_subdirs"
    /\ Top.si = Len(Top.subdirs)
    /\ DirReturns(Top.processingError)
    /\ UNCHANGED <<calleeVars, config, calls, cmdErr>>

processDirectory ==
    \/ DirNoFiles \/ DirGlob \/ DirFileCall \/ DirFileRet \/ DirFilesDone
    \/ DirSubSkip \/ DirSubEnter \/ DirReturn

\* the number of input files on the command line
MaxArgs == 2

\* handleConvertCommand(config) is called
InitCmdConvert ==
    /\ pc = "cmd_convert"
    /\ args \in SeqsUpTo(CmdArgs, MaxArgs)
    /\ \E o \in OutputFlags, r \in BOOLEAN :
           config = [Merge |-> FALSE, Convert |-> TRUE, InputFiles |-> args,
                     OutputFile |-> o, Recursive |-> r]

\* handleMergeCommand(config) is called
InitCmdMerge ==
    /\ pc = "cmd_merge"
    /\ args \in SeqsUpTo(CmdArgs, MaxArgs)
    /\ \E o \in OutputFlags :
           config = [Merge |-> TRUE, Convert |-> FALSE, InputFiles |-> args,
                     OutputFile |-> o, Recursive |-> FALSE]

InitCmd ==
    /\ InitCmdConvert \/ InitCmdMerge
    /\ today = FirstDate
    /\ entropy = OneDraw
    /\ probe = NoProbe
    /\ disk = CmdDisk
    /\ op = "none"
    /\ filename = <<>>
    /\ inputFiles = <<>>
    /\ outputFile = <<>>
    /\ caller = "none"
    /\ NotStarted

NextCmd ==
    \/ handleMergeCommand
    \/ handleConvertCommand \/ processDirectory
    \/ ReadFile
    \/ MergeFiles
    \/ ConvertFile \/ ConvertFromCBZ
    \/ RunDefers

CmdSpec == InitCmd /\ [][NextCmd]_vars

(***************************************************************************)
(* The generator on its own: util.GenerateUUID called again and again, as  *)
(* TestGenerateUUID does, each call with a draw of its own.                *)
(***************************************************************************)
\* the number of calls
MaxCalls == 2

InitUuid ==
    /\ pc = "uuid"
    /\ op = "uuid"
    /\ today = FirstDate
    /\ entropy = RandomDraws
    /\ probe = NoProbe
    /\ disk = [p \in InputPaths |-> Zip(<<>>)]
    /\ filename = <<>>
    /\ inputFiles = <<>>
    /\ outputFile = OutPath
    /\ NoCommand
    /\ NotStarted

\* one call of GenerateUUID
UuidCall ==
    /\ pc = "uuid"
    /\ Len(issued) < MaxCalls
    /\ \E rb \in entropy : issued' = Append(issued, GenerateUUID(rb))
    /\ UNCHANGED <<cmdVars, pc, probe, disk, op, filename, cbzFile, ri, readErr, inputFiles,
                   chapterIndex, imageCounter, ii, contentOPF, tocNCX, out, ret,
                   outputFile, handles, title, date, uuid>>

NextUuid == UuidCall

UuidSpec == InitUuid /\ [][NextUuid]_vars

Next ==
    \/ ReadFile
    \/ MergeFiles
    \/ ConvertFile \/ ConvertFromCBZ
    \/ RunDefers
    \/ Probe

Spec == Init /\ [][Next]_vars

(***************************************************************************)
(* Definitions the properties share. They describe the inputs, and are not *)
(* computed by the operators that model the code.                          *)
(***************************************************************************)
\* s ends with suffix e
EndsWith(s, e) == Len(s) >= Len(e) /\ SubSeq(s, Len(s) - Len(e) + 1, Len(s)) = e

\* the entry is a file, not a directory, with one of the five image extensions
Recognized(f) ==
    /\ ~f.IsDir
    /\ LET lower == ToLower(f.Name)
       IN  \E e \in ImageExts : EndsWith(lower, e)

\* ReadFile is in its loop over the entries
Reading == pc \in {"read_loop", "read_entry"}

\* ReadFile has returned a File to its caller, which still holds it
ReadReturned ==
    /\ readErr = "nil"
    /\ \/ op = "read" /\ pc = "done"
       \/ op = "merge" /\ pc \in {"merge_read_ret", "merge_images"}
       \/ op = "convert" /\ pc \notin {"read_open", "read_loop", "read_entry"}

\* the entries of the archive at path, when it is a readable container
EntriesOf(path) == disk[path].File

\* the recognized entries of an archive, in container order
RetainedOf(path) == SelectSeq(EntriesOf(path), Recognized)

\* a list of names in ascending order, by insertion
RECURSIVE InsertName(_, _)
InsertName(x, s) ==
    IF s = <<>> THEN <<x>>
    ELSE IF StrLess(x, Head(s)) THEN <<x>> \o s
    ELSE <<Head(s)>> \o InsertName(x, Tail(s))

RECURSIVE AscendingNames(_)
AscendingNames(s) ==
    IF s = <<>> THEN <<>> ELSE InsertName(Head(s), AscendingNames(Tail(s)))

\* the names a read of the archive returns: the base names of its recognized
\* entries in ascending order (one list, whatever the order among equal names)
SortedNamesOf(path) ==
    LET r == RetainedOf(path)
    IN  AscendingNames([i \in 1..Len(r) |-> Base(r[i].Name)])

RECURSIVE TotalRetained(_)
TotalRetained(files) ==
    IF files = <<>> THEN 0
    ELSE Len(RetainedOf(files[1])) + TotalRetained(Tail(files))

\* the final dot of a name and what follows it (names here have one)
RECURSIVE FromLastDot(_)
FromLastDot(s) ==
    IF s = <<>> THEN <<>>
    ELSE LET later == FromLastDot(Tail(s))
         IN  IF later # <<>> THEN later
             ELSE IF Head(s) = "." THEN s
             ELSE <<>>

\* the extensions of the names a read of an archive with these entries
\* returns, in the order of the names
SuffixesOfEntries(entries) ==
    LET r == SelectSeq(entries, Recognized)
        names == AscendingNames([i \in 1..Len(r) |-> Base(r[i].Name)])
    IN  [i \in 1..Len(names) |-> FromLastDot(names[i])]

\* the same for each content of the archives given to MergeFiles, computed
\* once
LeanSuffixes == [c \in LeanContents |-> SuffixesOfEntries(c.File)]

SuffixesOf(path) ==
    IF disk[path] \in LeanContents THEN LeanSuffixes[disk[path]]
    ELSE SuffixesOfEntries(EntriesOf(path))

\* a number below 10 as three digits
ThreeDigits(n) == <<"0", "0", Digit(n)>>

MergeDone == op = "merge" /\ pc = "done"
MergeSucceeded == MergeDone /\ ret = "nil"
ConvertDone == op = "convert" /\ pc = "done" /\ out.created
ConvertSucceeded == ConvertDone /\ ret = "nil"

(***************************************************************************)
(* C1                                                                      *)
(***************************************************************************)
\* C1: the images ReadFile returns are sorted by name ascending, byte-wise,
\* and images with the same name are in the order of their entries in the
\* container.
C1_SortedAndStable ==
    ReadReturned =>
        \A i, j \in 1..Len(cbzFile.Images) :
            i < j =>
                /\ ~StrLess(cbzFile.Images[j].Name, cbzFile.Images[i].Name)
                /\ cbzFile.Images[i].Name = cbzFile.Images[j].Name
                       => cbzFile.Images[i].entry < cbzFile.Images[j].entry

(***************************************************************************)
(* C2                                                                      *)
(***************************************************************************)
\* C2: every image ReadFile holds or returns comes from an entry that is not
\* a directory and whose extension, case ignored, is one of .jpg, .jpeg,
\* .png, .gif, .webp.
C2_OnlyRecognizedImages ==
    (Reading \/ ReadReturned) =>
        \A k \in 1..Len(cbzFile.Images) :
            LET idx == cbzFile.Images[k].entry
            IN  /\ idx \in 1..Len(EntriesOf(filename))
                /\ Recognized(EntriesOf(filename)[idx])

\* a read returned images from an archive that also holds a text file and a
\* directory entry
C2_Witness ==
    /\ op = "read" /\ ReadReturned
    /\ Len(cbzFile.Images) >= 1
    /\ \E i, j \in 1..Len(EntriesOf(filename)) :
           /\ EntriesOf(filename)[i] = EntryTxt
           /\ EntriesOf(filename)[j] = EntryDir

(***************************************************************************)
(* C3                                                                      *)
(***************************************************************************)
\* C3: a merge that returns nil has written exactly as many entries as its
\* input archives hold recognized images, and no two entries have the same
\* name.
C3_MergeWritesTDistinct ==
    MergeSucceeded =>
        /\ Len(out.entries) = TotalRetained(inputFiles)
        /\ \A i, j \in 1..Len(out.entries) :
               i # j => out.entries[i].Name # out.entries[j].Name

\* a merge of two archives succeeded, with image names that collide within
\* the first archive and across the two
C3_Witness ==
    /\ MergeSucceeded
    /\ inputFiles = <<PathA, PathB>>
    /\ EntriesOf(PathA) = <<EntryA, EntryA>>
    /\ EntriesOf(PathB) = <<EntryA, EntryB>>
    /\ Len(out.entries) = 4

(***************************************************************************)
(* C4                                                                      *)
(***************************************************************************)
\* the first archive and the second archive hold two images each
TwoAndTwo ==
    /\ MergeSucceeded
    /\ Len(inputFiles) = 2
    /\ Len(RetainedOf(inputFiles[1])) = 2
    /\ Len(RetainedOf(inputFiles[2])) = 2

\* the four names, given the numbers after "chapter" and "_" of each
NamedChapters(nums) ==
    /\ Len(out.entries) = 4
    /\ \A k \in 1..4 :
           LET name == out.entries[k].Name
               chapter == inputFiles[(k + 1) \div 2]
           IN  /\ Len(name) > 14
               /\ SubSeq(name, 1, 14) =
                      ChapterPrefix \o ThreeDigits(nums[k][1]) \o <<"_">>
                          \o ThreeDigits(nums[k][2])
               /\ \E f \in {RetainedOf(chapter)[i] : i \in 1..2} :
                      SubSeq(name, 15, Len(name)) = FromLastDot(f.Name)

\* C4 as stated: merging two archives of two images each yields
\* chapter001_001, chapter001_002, chapter002_001, chapter002_002.
C4_Original ==
    TwoAndTwo => NamedChapters(<<<<1, 1>>, <<1, 2>>, <<2, 1>>, <<2, 2>>>>)

\* C4 amended: merging two archives of two images each yields
\* chapter001_001, chapter001_002, chapter002_003, chapter002_004, each
\* followed by the extension of its source image.
C4_Amended ==
    TwoAndTwo => NamedChapters(<<<<1, 1>>, <<1, 2>>, <<2, 3>>, <<2, 4>>>>)

\* two archives of two images each have been merged
C4_Witness ==
    /\ TwoAndTwo
    /\ inputFiles = <<PathA, PathB>>
    /\ EntriesOf(PathA) = <<EntryB, EntryA>>
    /\ EntriesOf(PathB) = <<EntryA, EntryA>>

(***************************************************************************)
(* C5                                                                      *)
(***************************************************************************)
\* the names a merge of the files is to write, the first being number n
RECURSIVE ExpectedMergeNames(_, _, _)
ExpectedMergeNames(files, c, n) ==
    IF files = <<>> THEN <<>>
    ELSE LET suffixes == SuffixesOf(files[1])
         IN  [i \in 1..Len(suffixes) |->
                 ChapterPrefix \o ThreeDigits(c) \o <<"_">> \o ThreeDigits(n + i - 1)
                     \o suffixes[i]]
             \o ExpectedMergeNames(Tail(files), c + 1, n + Len(suffixes))

\* the input files whose images the merge has reached
FilesReached ==
    SubSeq(inputFiles, 1,
           IF chapterIndex < Len(inputFiles) /\ pc # "merge_loop"
           THEN chapterIndex + 1 ELSE chapterIndex)

FirstEntryIsMimetype(n) ==
    op = "convert" /\ Len(out.entries) >= 1 =>
        LET first == out.entries[1]
        IN  /\ first.Name = <<"m", "i", "m", "e", "t", "y", "p", "e">>
            /\ first.Method = "Store"
            /\ first.written =>
                   /\ first.Body =
                          <<"a", "p", "p", "l", "i", "c", "a", "t", "i", "o", "n", "/",
                            "e", "p", "u", "b", "+", "z", "i", "p">>
                   /\ Len(first.Body) = n
                   /\ first.Body[Len(first.Body)] # "\n"

\* C6 as stated: the first entry assemble writes is named mimetype, is
\* stored uncompressed and has content exactly application/epub+zip, 21
\* bytes with no trailing newline.
C6_Original == FirstEntryIsMimetype(21)

\* C6 amended: the first entry assemble writes is named mimetype, is stored
\* uncompressed and has content exactly application/epub+zip, which is 20
\* bytes, with no trailing newline.
C6_Amended == FirstEntryIsMimetype(20)

\* an archive with no images has been assembled
C6_Witness ==
    /\ ConvertSucceeded
    /\ Len(cbzFile.Images) = 0
    /\ Len(out.entries) >= 1
    /\ out.entries[1].written

(***************************************************************************)
(* C7                                                                      *)
(***************************************************************************)
HasPrefix(s, prefix) == Len(s) >= Len(prefix) /\ SubSeq(s, 1, Len(prefix)) = prefix

IsImageEntry(e) == HasPrefix(e.Name, <<"O", "E", "B", "P", "S", "/", "i", "m", "a", "g", "e", "s", "/">>)
IsPageEntry(e) == HasPrefix(e.Name, <<"O", "E", "B", "P", "S", "/", "p", "a", "g", "e", "s", "/">>)
IsOpfEntry(e) == e.Name = ContentOpfName
IsNcxEntry(e) == e.Name = TocNcxName
IsItemref(x) == x.tag = "itemref"
\* the id of page k, k below 10
PageIdOf(k) == <<"p", "a", "g", "e">> \o ThreeDigits(k)

IsNavPoint(x) == x.tag = "navPoint"

\* the content.opf written to the output, and the navPoints of the toc.ncx
\* written to it
OpfWritten == SelectSeq(out.entries, IsOpfEntry)[1].Body
NcxWritten == SelectSeq(SelectSeq(out.entries, IsNcxEntry)[1].Body, IsNavPoint)

\* C7: an assemble of N images that returns nil has written N entries under
\* OEBPS/images/ and N under OEBPS/pages/; the spine is page001 .. pageN in
\* that order; the navigation map is N navPoints, the k-th with playOrder k
\* and pointing at page k.
C7_PagesSpineNav ==
    ConvertSucceeded =>
        LET N == Len(cbzFile.Images)
            spine == SelectSeq(OpfWritten, IsItemref)
        IN  /\ Len(SelectSeq(out.entries, IsImageEntry)) = N
            /\ Len(SelectSeq(out.entries, IsPageEntry)) = N
            /\ Len(SelectSeq(out.entries, IsOpfEntry)) = 1
            /\ Len(SelectSeq(out.entries, IsNcxEntry)) = 1
            /\ Len(spine) = N
            /\ \A k \in 1..N : spine[k].id = PageIdOf(k)
            /\ Len(NcxWritten) = N
            /\ \A k \in 1..N :
                   /\ NcxWritten[k].playOrder = <<Digit(k)>>
                   /\ NcxWritten[k].src =
                          <<"p", "a", "g", "e", "s", "/">> \o PageIdOf(k)
                              \o <<".", "x", "h", "t", "m", "l">>

\* an archive of at least two images has been assembled
C7_Witness ==
    /\ ConvertSucceeded
    /\ Len(cbzFile.Images) >= 2
    /\ Len(SelectSeq(OpfWritten, IsItemref)) >= 2

(***************************************************************************)
(* C8                                                                      *)
(***************************************************************************)
\* the entry of the input archive the k-th image of the File was read from
SourceOf(k) == EntriesOf(filename)[cbzFile.Images[k].entry]

\* image{k}{ext}, k below 10
ImageNameOf(k) ==
    <<"i", "m", "a", "g", "e">> \o ThreeDigits(k) \o FromLastDot(SourceOf(k).Name)

\* C8: assemble writes, for the k-th image in sorted order, the entry
\* OEBPS/images/image{k}{ext_k} holding the data of that image, and the page
\* OEBPS/pages/page{k}.xhtml referring to ../images/image{k}{ext_k}: every
\* one of them when it returns nil, and no other content under those names
\* when it fails on the way.
C8_ImageAndPageContent ==
    op = "convert" /\ out.created =>
        /\ \A n \in 1..Len(out.entries) :
               LET e == out.entries[n]
               IN  /\ IsImageEntry(e) =>
                       \E k \in 1..Len(cbzFile.Images) :
                           /\ e.Name = ImagesDir \o ImageNameOf(k)
                           /\ e.Body = SourceOf(k).Data
                   /\ IsPageEntry(e) =>
                       \E k \in 1..Len(cbzFile.Images) :
                           /\ e.Name = PagesDir \o PageIdOf(k) \o XhtmlSuffix
                           /\ e.Body.src =
                                  <<".", ".", "/", "i", "m", "a", "g", "e", "s", "/">>
                                      \o ImageNameOf(k)
        /\ ConvertSucceeded =>
               \A k \in 1..Len(cbzFile.Images) :
                   /\ \E n \in 1..Len(out.entries) :
                          out.entries[n].Name = ImagesDir \o ImageNameOf(k)
                   /\ \E n \in 1..Len(out.entries) :
                          out.entries[n].Name = PagesDir \o PageIdOf(k) \o XhtmlSuffix

\* b.PNG then a.jpg in the container: image001.jpg holds the data of a.jpg
\* and image002.PNG the data of b.PNG
C8_Witness ==
    /\ ConvertSucceeded
    /\ EntriesOf(filename) = <<EntryB, EntryA>>
    /\ \E n, m \in 1..Len(out.entries) :
           /\ out.entries[n].Name =
                  ImagesDir \o <<"i", "m", "a", "g", "e", "0", "0", "1", ".", "j", "p", "g">>
           /\ out.entries[n].Body = "A"
           /\ out.entries[m].Name =
                  ImagesDir \o <<"i", "m", "a", "g", "e", "0", "0", "2", ".", "P", "N", "G">>
           /\ out.entries[m].Body = "C"

(***************************************************************************)
(* C9                                                                      *)
(***************************************************************************)
\* the MIME type of an extension, case ignored
MimeOfKind(kind) ==
    CASE kind \in {"jpg", "jpeg"} -> "image/jpeg"
      [] kind = "png" -> "image/png"
      [] kind = "gif" -> "image/gif"
      [] kind = "webp" -> "image/webp"
      [] OTHER -> "application/octet-stream"

\* C9: getMimeType gives the type of the extension of the name, case
\* ignored, and application/octet-stream for any other or no extension; and
\* every image ReadFile holds or returns has one of the four image types.
C9_MimeTypes ==
    /\ probe.applied => probe.mime = MimeOfKind(probe.kind)
    /\ (Reading \/ ReadReturned) =>
           \A k \in 1..Len(cbzFile.Images) :
               cbzFile.Images[k].MimeType \in
                   {"image/jpeg", "image/png", "image/gif", "image/webp"}

\* getMimeType has been applied to a name in a folder whose own name ends in
\* .jpg, with the extension .JpeG
C9_Witness ==
    /\ probe.applied
    /\ probe.dir = <<"d", ".", "j", "p", "g", "/">>
    /\ probe.ext = <<".", "J", "p", "e", "G">>
    /\ probe.mime = "image/jpeg"

(***************************************************************************)
(* C10                                                                     *)
(***************************************************************************)
\* C10: when a creation of an entry, a write to the output or the final
\* write that closes the writer has failed, merge and assemble return an
\* error: a nil result means every write, the last included, succeeded.
C10_WriteErrorsReturned ==
    (op \in {"merge", "convert"} /\ pc = "done" /\ out.created) =>
        /\ out.failed => ret = "error"
        /\ ret = "nil" => out.finalized

(***************************************************************************)
(* C11                                                                     *)
(***************************************************************************)
\* the archive at path cannot be read: it is no container, or one of its
\* recognized entries is corrupt
Unreadable(path) ==
    \/ ~disk[path].valid
    \/ \E i \in 1..Len(EntriesOf(path)) :
           Recognized(EntriesOf(path)[i]) /\ EntriesOf(path)[i].Corrupt

\* the read of an input archive has failed in a merge
MergeReadFailed == op = "merge" /\ out.created /\ readErr \in {"open", "read"}

\* C11: when the read of the k-th input fails in a merge, the merge returns
\* an error without reading another input: the k-th is the first input that
\* cannot be read, it is the last one read, the result is an error, and the
\* output file exists and holds exactly the entries of inputs 1..k-1, each
\* written in full.
C11_ReadFailureAborts ==
    MergeReadFailed =>
        LET k == chapterIndex + 1
            earlier == SubSeq(inputFiles, 1, k - 1)
            expected == ExpectedMergeNames(earlier, 1, 1)
        IN  /\ k <= Len(inputFiles)
            /\ filename = inputFiles[k]
            /\ Unreadable(inputFiles[k])
            /\ \A j \in 1..(k - 1) : ~Unreadable(inputFiles[j])
            /\ pc \in {"merge_read_ret", "defers", "defer_file", "done"}
            /\ pc # "merge_read_ret" => ret = "error"
            /\ out.created
            /\ Len(out.entries) = Len(expected)
            /\ \A n \in 1..Len(out.entries) :
                   /\ out.entries[n].Name = expected[n]
                   /\ out.entries[n].written

\* a merge has returned after the read of its second input failed, and the
\* two entries of the first input are in the output
C11_Witness ==
    /\ MergeDone
    /\ MergeReadFailed
    /\ inputFiles = <<PathA, PathB>>
    /\ EntriesOf(PathA) = <<EntryB, EntryA>>
    /\ ~disk[PathB].valid
    /\ Len(out.entries) = 2
    /\ out.closed

(***************************************************************************)
(* C12                                                                     *)
(***************************************************************************)
\* what follows the last slash of a path
AfterLastSlash(s) ==
    IF \E i \in 1..Len(s) : s[i] = "/"
    THEN LET k == CHOOSE i \in 1..Len(s) :
                      s[i] = "/" /\ \A j \in (i + 1)..Len(s) : s[j] # "/"
         IN  SubSeq(s, k + 1, Len(s))
    ELSE s

\* the path ends in .cbz, whatever the case of the letters
EndsInCbz(path) == EndsWith(ToLower(path), <<".", "c", "b", "z">>)

\* the base name of an archive path without its four characters of extension
StemOf(path) ==
    LET b == AfterLastSlash(path) IN SubSeq(b, 1, Len(b) - 4)

\* the documents of the conversion that is running, as far as written
OpfEntries == SelectSeq(out.entries, IsOpfEntry)
NcxEntries == SelectSeq(out.entries, IsNcxEntry)

\* the command is converting an archive it accepted
CommandConverts == op = "convert" /\ caller # "none" /\ EndsInCbz(filename)

\* C12: for every archive path the command accepts as a CBZ file, the title
\* in the package document and in the navigation document is the base name
\* of the path without the archive extension.
C12_TitleIsStem ==
    CommandConverts =>
        /\ \A n \in 1..Len(OpfEntries) : OpfEntries[n].Body[1].title = StemOf(filename)
        /\ \A n \in 1..Len(NcxEntries) : NcxEntries[n].Body[1].docTitle = StemOf(filename)

\* ---------------------------------------------------------------------
\* C13  the output path of the convert command

\* the path with its last four characters, the extension, replaced by .epub
WithEpubExtension(path) == SubSeq(path, 1, Len(path) - Len(ExtCbz)) \o ExtEpub

\* C13: when no output file is given, every conversion the convert command
\* starts, for a file named on the command line or found in a directory,
\* writes to the input path with its .cbz extension (in any case) replaced
\* by .epub
C13_OutputReplacesExtension ==
    config.OutputFile = <<>> =>
        \A n \in 1..Len(calls) : calls[n].output = WithEpubExtension(calls[n].input)

\* ---------------------------------------------------------------------
\* C14  the convert command goes through its inputs one at a time

\* the files processDirectory converts in a directory, in order: those that
\* match *.cbz, then those of its subdirectories (it runs under -recursive
\* only); nothing when no file of the directory itself matches
RECURSIVE FoundIn(_), FoundUnder(_, _)
FoundUnder(dirPath, names) ==
    IF names = <<>> THEN <<>>
    ELSE LET sub == Join(dirPath, Head(names))
         IN  (IF Stat(sub) = "dir" THEN FoundIn(sub) ELSE <<>>)
             \o FoundUnder(dirPath, Tail(names))

FoundIn(dirPath) ==
    LET here == SelectSeq(disk[dirPath].children, LAMBDA name : EndsWith(name, ExtCbz))
    IN  IF here = <<>> THEN <<>>
        ELSE [i \in 1..Len(here) |-> Join(dirPath, here[i])]
             \o FoundUnder(dirPath, disk[dirPath].children)

\* the conversions one input of the command stands for: itself when it is a
\* file accepted as CBZ, what is found in it when it is a directory given
\* with -recursive, none when it is missing, another file, or a directory
\* given without -recursive
ConversionsOf(input) ==
    IF Stat(input) = "dir" THEN (IF config.Recursive THEN FoundIn(input) ELSE <<>>)
    ELSE IF Stat(input) = "file" /\ EndsInCbz(input) THEN <<input>>
    ELSE <<>>

RECURSIVE ConversionsOfAll(_)
ConversionsOfAll(inputs) ==
    IF inputs = <<>> THEN <<>>
    ELSE ConversionsOf(Head(inputs)) \o ConversionsOfAll(Tail(inputs))

\* the files ConvertFile was called on, in the order of the calls
Converted == [n \in 1..Len(calls) |-> calls[n].input]

\* os.Stat failed on an input, or a call of ConvertFile returned an error
StatFailed == \E i \in 1..Len(args) : Stat(args[i]) = "missing"
CallFailed == \E n \in 1..Len(calls) : calls[n].err \notin {"nil", "none"}

\* the command returned an error exactly when an input failed
ErrorIffFailed == (cmdErr # "nil") <=> (StatFailed \/ CallFailed)

HexChars == {HexDigits[i] : i \in 1..Len(HexDigits)}

HyphenAt == {9, 14, 19, 24}

\* 36 characters, lower-case hexadecimal digits in groups of 8, 4, 4, 4 and
\* 12 with hyphens between, the third group beginning with 4 and the fourth
\* with 8, 9, a or b
IsVersion4(u) ==
    /\ Len(u) = 36
    /\ \A i \in 1..Len(u) : IF i \in HyphenAt THEN u[i] = "-" ELSE u[i] \in HexChars
    /\ u[15] = "4"
    /\ u[20] \in {"8", "9", "a", "b"}

AllVersion4 == \A n \in 1..Len(issued) : IsVersion4(issued[n])

C16_NoDeduplication ==
    ReadReturned =>
        /\ Len(cbzFile.Images) = Len(RetainedOf(filename))
        /\ \A i, j \in 1..Len(cbzFile.Images) :
               i # j => cbzFile.Images[i].entry # cbzFile.Images[j].entry
        /\ \A k \in 1..Len(cbzFile.Images) :
               LET img == cbzFile.Images[k]
               IN  /\ img.entry \in 1..Len(EntriesOf(filename))
                   /\ img.Name = AfterLastSlash(EntriesOf(filename)[img.entry].Name)

\* a read of an archive holding a.jpg and d/a.jpg has returned two images,
\* both named a.jpg, with the data of the one and of the other
C16_Witness ==
    /\ op = "read" /\ ReadReturned
    /\ Len(cbzFile.Images) = 2
    /\ cbzFile.Images[1].Name = cbzFile.Images[2].Name
    /\ {cbzFile.Images[1].Data, cbzFile.Images[2].Data} = {EntryA.Data, EntryDA.Data}

\* ---------------------------------------------------------------------
\* C17  the manifest and the container agree

IsItem(x) == x.tag = "item"

\* the directory the hrefs of the manifest are relative to
OebpsDir == <<"O", "E", "B", "P", "S", "/">>

\* the items of the manifest of the content.opf written
Manifest == SelectSeq(OpfWritten, IsItem)

\* the items of the manifest that refer to the entry of this name
ItemsFor(name) == {n \in 1..Len(Manifest) : OebpsDir \o Manifest[n].href = name}

\* the entries of the output of this name
EntriesNamed(name) == {n \in 1..Len(out.entries) : out.entries[n].Name = name}

\* C17: in the output of an assemble that returned nil, the manifest has one
\* item for toc.ncx, one item per image entry, with that entry's path under
\* OEBPS as href and the MIME type of the image as media-type, one item per
\* page entry, and no other item; every item refers to an entry that is
\* there; no id is repeated; every itemref of the spine names the id of the
\* item of a page
C17_ManifestMatchesContainer ==
    ConvertSucceeded =>
        LET N == Len(cbzFile.Images)
        IN  /\ Len(Manifest) = 1 + 2 * N
            /\ Cardinality(ItemsFor(TocNcxName)) = 1
            /\ \A k \in 1..N :
                   /\ Cardinality(EntriesNamed(ImagesDir \o ImageNameOf(k))) = 1
                   /\ Cardinality(ItemsFor(ImagesDir \o ImageNameOf(k))) = 1
                   /\ \A n \in ItemsFor(ImagesDir \o ImageNameOf(k)) :
                          Manifest[n].mediaType = cbzFile.Images[k].MimeType
            /\ \A e \in 1..Len(out.entries) :
                   (IsImageEntry(out.entries[e]) \/ IsPageEntry(out.entries[e]))
                       => Cardinality(ItemsFor(out.entries[e].Name)) = 1
            /\ \A n \in 1..Len(Manifest) :
                   EntriesNamed(OebpsDir \o Manifest[n].href) # {}
            /\ \A m, n \in 1..Len(Manifest) : m # n => Manifest[m].id # Manifest[n].id
            /\ \A s \in 1..Len(OpfWritten) :
                   IsItemref(OpfWritten[s]) =>
                       \E n \in 1..Len(Manifest) :
                           /\ Manifest[n].id = OpfWritten[s].id
                           /\ \E e \in EntriesNamed(OebpsDir \o Manifest[n].href) :
                                  IsPageEntry(out.entries[e])

\* an assemble of a.jpg and b.PNG has returned nil: the manifest has five
\* items, of the types image/jpeg and image/png among them
C17_Witness ==
    /\ ConvertSucceeded
    /\ Len(cbzFile.Images) = 2
    /\ Len(Manifest) = 5
    /\ {Manifest[n].mediaType : n \in 1..Len(Manifest)} =
           {"application/x-dtbncx+xml", "image/jpeg", "image/png", "application/xhtml+xml"}

\* ---------------------------------------------------------------------
\* C18  the merge command sorts, the merge does not

\* the input paths of the command line in ascending order
SortedArgs == AscendingNames(args)

\* the command is in its call of MergeFiles
CommandMerges == caller = "handleMergeCommand"

\* the chapter number in the name of an entry the merge wrote
ChapterOf(e) == SubSeq(e.Name, Len(ChapterPrefix) + 1, Len(ChapterPrefix) + 3)

\* C18: all through the call of MergeFiles made by the merge command, the
\* list MergeFiles works on is the one it was given, which is the input
\* paths of the command line in ascending order, whatever their order there;
\* so each entry written under chapter c holds an image of the c-th path in
\* ascending order
C18_CommandSortsInputs ==
    CommandMerges =>
        /\ inputFiles = config.InputFiles
        /\ inputFiles = SortedArgs
        /\ \A i, j \in 1..Len(inputFiles) : i < j => ~StrLess(inputFiles[j], inputFiles[i])
        /\ \A n \in 1..Len(out.entries) :
               \E c \in 1..Len(args) :
                   /\ ChapterOf(out.entries[n]) = ThreeDigits(c)
                   /\ Stat(SortedArgs[c]) = "file"
                   /\ \E k \in 1..Len(RetainedOf(SortedArgs[c])) :
                          out.entries[n].Body = RetainedOf(SortedArgs[c])[k].Data

\* the command was given a.cbz, then B.CBZ; the merge has returned nil, with
\* the image of B.CBZ as chapter 1 and the image of a.cbz as chapter 2
C18_Witness ==
    /\ CommandMerges
    /\ args = <<PathA, PathUpper>>
    /\ pc = "returned"
    /\ ret = "nil"
    /\ Len(out.entries) = 2
    /\ ChapterOf(out.entries[1]) = <<"0", "0", "1">> /\ out.entries[1].Body = EntryB.Data
    /\ ChapterOf(out.entries[2]) = <<"0", "0", "2">> /\ out.entries[2].Body = EntryA.Data

\* ---------------------------------------------------------------------
\* C19  the handles are released on every exit path

\* the operation has returned to whoever called it
Exited == pc \in {"done", "returned"}

\* C19: the reader of an entry is open only while that entry is read, so it
\* is closed before the next entry is opened; the reader of the input
\* container is open only while ReadFile runs; the writer of the output is
\* never open without the output file under it, and is closed before the
\* file is; and when read, merge or assemble has returned, with or without
\* an error, no handle is open
C19_HandlesReleased ==
    /\ "rc" \in handles <=> pc = "read_entry"
    /\ "zipReader" \in handles <=> Reading
    /\ "zipWriter" \in handles => "zipFile" \in handles
    /\ pc = "defer_file" => ("zipFile" \in handles /\ "zipWriter" \notin handles)
    /\ out.closed => "zipFile" \notin handles
    /\ Exited => handles = {}

\* a merge has returned an error after the read of an entry failed: the
\* output had been created, an entry reader, the container reader, the
\* writer and the file had been open, and all are closed
C19_Witness ==
    /\ op = "merge"
    /\ pc = "done"
    /\ ret = "error"
    /\ readErr = "read"
    /\ out.created /\ out.closed
    /\ chapterIndex = 1
    /\ Len(out.entries) >= 1
    /\ handles = {}

\* ---------------------------------------------------------------------
\* C20  one identifier for the two documents

\* C20: an assemble draws at most one identifier, exactly one once it has
\* begun the package document, and wherever an identifier stands, in the
\* package document (in its buffer or written) and in the navigation
\* document as dtb:uid, it is urn:uuid: followed by that identifier
C20_OneIdentifier ==
    op = "convert" =>
        /\ Len(issued) <= 1
        /\ contentOPF # <<>> =>
               /\ Len(issued) = 1
               /\ contentOPF[1].identifier = UrnUuid \o issued[1]
        /\ \A n \in 1..Len(OpfEntries) :
               OpfEntries[n].Body[1].identifier = UrnUuid \o issued[1]
        /\ \A n \in 1..Len(NcxEntries) :
               NcxEntries[n].Body[1].uid = UrnUuid \o issued[1]
        /\ ConvertSucceeded => (Len(OpfEntries) = 1 /\ Len(NcxEntries) = 1)

\* an assemble has returned nil; its two documents carry the identifier it
\* drew, the one that begins with ffa7
C20_Witness ==
    /\ ConvertSucceeded
    /\ Len(issued) = 1
    /\ SubSeq(issued[1], 1, 4) = <<"f", "f", "a", "7">>
    /\ OpfEntries[1].Body[1].identifier = UrnUuid \o issued[1]
    /\ NcxEntries[1].Body[1].uid = OpfEntries[1].Body[1].identifier

\* ---------------------------------------------------------------------
\* C21  a merge leaves its inputs as they were

\* what is at the path is what was there when the command began
AsBefore(path) == disk[path] = CmdDisk[path]

\* C21: at every moment of a run of the merge command, MergeFiles running
\* or returned, with or without an error, every file named in the input
\* list holds what it held before, also when the output path names one of
\* them
C21_InputsUnchanged ==
    config.Merge => \A i \in 1..Len(args) : AsBefore(args[i])

\* ---------------------------------------------------------------------
\* C22  no output before the input is read

\* ConvertFile, called directly, has not got a File from ReadFile: the read
\* has not begun, is running, or has failed
NotRead == op = "convert" /\ caller = "none" /\ readErr # "nil"

\* nothing has been created at the output path, and what was there is there
OutputUntouched ==
    /\ out = NoOutput
    /\ outputFile \in DOMAIN disk => disk[outputFile] = ExistingOutput

\* C22: as long as ReadFile has not returned a File to ConvertFile the output
\* path is untouched, so the output is created only after the read has
\* succeeded; and when the input cannot be opened or read, ConvertFile
\* returns an error with the output path still untouched
C22_OutputUntouched ==
    /\ NotRead => OutputUntouched
    /\ (NotRead /\ pc = "done") => (readErr \in {"open", "read"} /\ ret = "error")
    /\ (op = "convert" /\ out.created) => readErr = "nil"

\* ConvertFile was to write where a file exists already; the second entry of
\* the input could not be read; it has returned an error and the file is as
\* it was
C22_Witness ==
    /\ NotRead
    /\ pc = "done"
    /\ readErr = "read"
    /\ ret = "error"
    /\ outputFile = PathB
    /\ disk[PathA] = Zip(<<EntryA, EntryBad>>)
    /\ disk[PathB] = ExistingOutput
    /\ out = NoOutput

====
